---- MODULE Spec2Model ----
(***************************************************************************)
(* The export.pdb decoder of src/lib/rekordbox-parser.ts as a state        *)
(* machine over a byte image: header validation, the four passes over the  *)
(* table descriptors, the page walk with its reverse row index, the row    *)
(* decoders, the device-string codec and the playlist assembly.            *)
(*                                                                         *)
(* Integers are TLC integers: every u32 the inputs hold is below 2^31.     *)
(***************************************************************************)
EXTENDS Integers, Sequences, FiniteSets, TLC

VARIABLES
  fileSize,        \* file.size == buffer.byteLength of the image being decoded
  fileBytes,       \* the image: offset -> byte, for the bytes that are set (the rest are 0)
  now,             \* the wall clock read by `new Date()`
  pc,              \* "start" | "walk" | "done" | "failed"
  error,           \* the message class of the error that escaped, or "none"
  lenPage,         \* header field page_len
  tables,          \* the accepted table descriptors, in header order
  pass,            \* 1..4: lookups, playlist tree, playlist entries, tracks
  tableIdx,        \* index in tables of the table walked last in this pass (0: none yet)
  walking,         \* parseTablePages is inside its while loop
  pageIndex,       \* parseTablePages: pageIndex
  visitedPages,    \* parseTablePages: visitedPages
  artists, albums, genres, keys, labels,   \* lookup maps id -> name
  playlistTree,    \* Map in insertion order: sequence of [id, name, parentId, isFolder, sortOrder]
  playlistEntries, \* Map playlistId -> sequence of [trackId, position]
  trackData,       \* Map in insertion order: sequence of tracks
  playlistMap,     \* Map in insertion order: sequence of playlists (children as ids)
  library,         \* the returned RekordboxDatabase, or NoLibrary
  requests,        \* history: the reads requested outside [0, bufferLength)
  rowLog,          \* history: one record per row handed to a row decoder, in decode order
  decodes,         \* number of decodes of this image started so far
  firstLibrary,    \* the library returned by the first decode of this image
  baseDb,          \* useRekordbox: the library decoded from export.pdb
  extDb,           \* useRekordbox: the library decoded from exportExt.pdb
  mergedDb,        \* useRekordbox: the library handed to setStatus
  merges,          \* number of merges made so far
  firstMerged,     \* history: the result of the first merge
  status,          \* useRekordbox: status, [type] or [type, database]
  selectedPlaylist,\* useRekordbox: selectedPlaylist, a Playlist or NoPlaylist
  searchQuery,     \* useRekordbox: searchQuery
  sortColumn,      \* useRekordbox: sortColumn
  sortDirection,   \* useRekordbox: sortDirection
  filteredTracks,  \* Index: the value of getFilteredTracks() at the last render
  rootHandle,      \* useRekordbox: rootHandle, a directory or NoHandle
  currentDirectory,\* useRekordbox: currentDirectory, a directory or NoHandle
  directoryPath,   \* useRekordbox: directoryPath, a sequence of directory names
  fileEntries,     \* useRekordbox: fileEntries, the directories of a listing
  tasks,           \* the calls of the hook's async functions suspended at an await
  disk,            \* the browser and the selected device, fixed for a run
  hist             \* history: [afterReset, lastLoad]

vars == <<fileSize, fileBytes, now, pc, error, lenPage, tables, pass, tableIdx,
          walking, pageIndex, visitedPages, artists, albums, genres, keys, labels,
          playlistTree, playlistEntries, trackData, playlistMap, library,
          requests, rowLog, decodes, firstLibrary,
          baseDb, extDb, mergedDb, merges, firstMerged,
          status, selectedPlaylist, searchQuery, sortColumn, sortDirection, filteredTracks,
          rootHandle, currentDirectory, directoryPath, fileEntries, tasks, disk, hist>>

(***************************************************************************)
(* Program constants                                                       *)
(***************************************************************************)
PAGE_TYPE_TRACKS == 0
PAGE_TYPE_GENRES == 1
PAGE_TYPE_ARTISTS == 2
PAGE_TYPE_ALBUMS == 3
PAGE_TYPE_LABELS == 4
PAGE_TYPE_KEYS == 5
PAGE_TYPE_PLAYLIST_TREE == 7
PAGE_TYPE_PLAYLIST_ENTRIES == 8

MAX_FILE_SIZE == 500 * 1024 * 1024
HEADER_SIZE == 28
MAX_TABLES == 1000
MIN_PAGE_LEN == 512
MAX_PAGE_LEN == 1024 * 1024
PAGE_HEADER_SIZE == 40
MAX_ROW_OFFSETS == 2000
MAX_VISITED_PAGES == 10000
ROW_GROUP_STRIDE == 36
MAX_STRING_OFFSET == 10000
TRACK_ROW_MIN == 134
OFS_STRINGS == 94
NUM_STRING_SLOTS == 21
MAX_TEMPO == 50000
MAX_DURATION == 36000
MAX_BITRATE == 10000

NULL == -1

(***************************************************************************)
(* Bounds of the model                                                     *)
(***************************************************************************)
MaxPages == 3
MaxTrackRows == 2
MaxTreeRows == 4
MaxEntryRows == 3
MaxClock == 1
MaxDecodes == 2
NoLibrary == [tracks |-> <<>>, playlists |-> <<>>]

(***************************************************************************)
(* DataView over the buffer                                                *)
(***************************************************************************)
\* Body applied to the value of e, which is computed once
Bind(e, Body(_)) == CHOOSE out \in {Body(v) : v \in {e}} : TRUE

bufferLength == fileSize

Byte(o) == IF o \in DOMAIN fileBytes THEN fileBytes[o] ELSE 0

\* DataView.getUintN(o) and new Uint8Array(buffer, o, n) throw a RangeError
\* unless the n bytes at o lie inside the buffer.
InBounds(o, n) == o >= 0 /\ n >= 0 /\ o + n <= bufferLength

Req(o, n) == [off |-> o, len |-> n]

\* The first request of a sequence that raises a RangeError, as a set (empty: none).
RECURSIVE FirstBad(_)
FirstBad(reqs) ==
  IF reqs = <<>> THEN {}
  ELSE IF ~InBounds(Head(reqs).off, Head(reqs).len) THEN {Head(reqs)}
  ELSE FirstBad(Tail(reqs))

getUint8(o) == Byte(o)
getUint16(o) == Byte(o) + 256 * Byte(o + 1)
getUint32(o) == Byte(o) + 256 * Byte(o + 1) + 65536 * Byte(o + 2) + 16777216 * Byte(o + 3)

(***************************************************************************)
(* Text: a JavaScript string is the sequence of its UTF-16 code units.     *)
(***************************************************************************)
BytesAt(o, n) == [i \in 1..n |-> Byte(o + i - 1)]

\* TextDecoder('ascii') is the windows-1252 decoder: one code unit per byte,
\* bytes 0x80..0x9F through the index table.
Windows1252High ==
  << 8364, 129, 8218, 402, 8222, 8230, 8224, 8225, 710, 8240, 352, 8249, 338, 141, 381, 143,
     144, 8216, 8217, 8220, 8221, 8226, 8211, 8212, 732, 8482, 353, 8250, 339, 157, 382, 376 >>

DecodeAscii(bytes) ==
  [i \in 1..Len(bytes) |->
     IF bytes[i] >= 128 /\ bytes[i] < 160 THEN Windows1252High[bytes[i] - 127] ELSE bytes[i]]

IsHighSurrogate(u) == u >= 55296 /\ u <= 56319
IsLowSurrogate(u) == u >= 56320 /\ u <= 57343

\* TextDecoder('utf-16le'): byte pairs to code units, a trailing odd byte and
\* every unpaired surrogate to U+FFFD, a leading byte order mark removed.
Unit(bytes, i) == bytes[2 * i - 1] + 256 * bytes[2 * i]

\* A code unit between its neighbours: an unpaired surrogate becomes U+FFFD
Paired(u, before, after) ==
  IF IsHighSurrogate(u) THEN (IF IsLowSurrogate(after) THEN u ELSE 65533)
  ELSE IF IsLowSurrogate(u) THEN (IF IsHighSurrogate(before) THEN u ELSE 65533)
  ELSE u

Units(bytes) ==
  [i \in 1..(Len(bytes) \div 2) |->
     Paired(Unit(bytes, i),
            IF i > 1 THEN Unit(bytes, i - 1) ELSE 0,
            IF i < Len(bytes) \div 2 THEN Unit(bytes, i + 1) ELSE 0)]

WithoutBom(units) == IF units # <<>> /\ units[1] = 65279 THEN Tail(units) ELSE units

DecodeUtf16le(bytes) ==
  WithoutBom(IF Len(bytes) % 2 = 1 THEN Append(Units(bytes), 65533) ELSE Units(bytes))

(***************************************************************************)
(* readDeviceSqlString                                                     *)
(***************************************************************************)
EmptyString == [text |-> <<>>, bad |-> {}]

\* A decoded string, or the empty string when a view or read raised inside the try.
Decoded(text, reqs) ==
  IF FirstBad(reqs) = {} THEN [text |-> text, bad |-> {}]
  ELSE [text |-> <<>>, bad |-> FirstBad(reqs)]

StringOffsetOutside(offset) == offset >= bufferLength \/ offset < 0

LongHeaderMissing(offset) == offset + 4 >= bufferLength

LongLengthInvalid(length) == length < 4 \/ length > 65535

LongPayloadOverflows(offset, length) == offset + 4 + (length - 4) > bufferLength

ShortLengthInvalid(length) == length < 1 \/ length > 127

ShortPayloadOverflows(offset, length) == offset + 1 + (length - 1) > bufferLength

LongPayload(offset, length, isUtf16) ==
  IF LongLengthInvalid(length) THEN EmptyString
  ELSE IF LongPayloadOverflows(offset, length) THEN EmptyString
  ELSE Decoded(IF isUtf16 THEN DecodeUtf16le(BytesAt(offset + 4, length - 4))
               ELSE DecodeAscii(BytesAt(offset + 4, length - 4)),
               <<Req(offset + 4, length - 4)>>)

ReadLongString(offset, isUtf16) ==
  IF LongHeaderMissing(offset) THEN EmptyString
  ELSE IF ~InBounds(offset + 1, 2) THEN Decoded(<<>>, <<Req(offset + 1, 2)>>)
  ELSE LongPayload(offset, getUint16(offset + 1), isUtf16)

ShortPayload(offset, length) ==
  IF ShortLengthInvalid(length) THEN EmptyString
  ELSE IF ShortPayloadOverflows(offset, length) THEN EmptyString
  ELSE Decoded(DecodeAscii(BytesAt(offset + 1, length - 1)), <<Req(offset + 1, length - 1)>>)

\* The short form with the header byte counted out of the length
ReadShortStringWhole(offset, lengthAndKind) == ShortPayload(offset, lengthAndKind \div 2 + 1)

ReadShortString(offset, lengthAndKind) == ShortPayload(offset, lengthAndKind \div 2)

StringOfKind(offset, lengthAndKind) ==
  IF lengthAndKind = 64 THEN ReadLongString(offset, FALSE)
  ELSE IF lengthAndKind = 144 THEN ReadLongString(offset, TRUE)
  ELSE IF lengthAndKind % 2 = 1 THEN ReadShortString(offset, lengthAndKind)
  ELSE EmptyString

\* [text, bad]: the string at offset and the request that raised, if one did.
ReadString(offset) ==
  IF StringOffsetOutside(offset) THEN EmptyString
  ELSE IF offset + 1 > bufferLength THEN EmptyString
  ELSE IF ~InBounds(offset, 1) THEN Decoded(<<>>, <<Req(offset, 1)>>)
  ELSE StringOfKind(offset, getUint8(offset))

readDeviceSqlString(offset) == ReadString(offset).text

(***************************************************************************)
(* Values of the decoded model                                             *)
(***************************************************************************)
UnknownTitle == <<85, 110, 107, 110, 111, 119, 110, 32, 84, 105, 116, 108, 101>>
UnknownArtist == <<85, 110, 107, 110, 111, 119, 110, 32, 65, 114, 116, 105, 115, 116>>
UnknownAlbum == <<85, 110, 107, 110, 111, 119, 110, 32, 65, 108, 98, 117, 109>>

\* name is truthy
NonEmpty(text) == text # <<>>

\* map.get(id) || fallback
Lookup(map, id, fallback) == IF id \in DOMAIN map /\ NonEmpty(map[id]) THEN map[id] ELSE fallback

\* map.set(id, value) on a plain id -> value map
MapSet(map, id, value) == [k \in DOMAIN map \cup {id} |-> IF k = id THEN value ELSE map[k]]

HasId(seq, id) == \E i \in 1..Len(seq) : seq[i].id = id

\* An array push where the code has a Map.set
PushValue(seq, value) == Append(seq, value)

\* A Map.set that leaves the value of a known key as it was
KeepFirstValue(seq, value) == IF HasId(seq, value.id) THEN seq ELSE Append(seq, value)

\* Map.set on a Map whose iteration order matters: a known key keeps its place
OrderedSet(seq, value) ==
  IF HasId(seq, value.id)
    THEN [i \in 1..Len(seq) |-> IF seq[i].id = value.id THEN value ELSE seq[i]]
    ELSE Append(seq, value)

\* tempo / 100 as an exact decimal
Bpm(tempo) == [whole |-> tempo \div 100, hundredths |-> tempo % 100]

(***************************************************************************)
(* Date: the time value as days since the epoch and milliseconds of day    *)
(***************************************************************************)
InvalidDate == [valid |-> FALSE, days |-> 0, ms |-> 0]

IsDigit(u) == u >= 48 /\ u <= 57

IsLeapYear(y) == (y % 4 = 0 /\ y % 100 # 0) \/ y % 400 = 0

DaysInMonth(y, m) ==
  IF m = 2 THEN (IF IsLeapYear(y) THEN 29 ELSE 28)
  ELSE IF m \in {4, 6, 9, 11} THEN 30 ELSE 31

ShiftedYear(y, m) == IF m <= 2 THEN y - 1 ELSE y

DayOfYear(m, d) == (153 * (IF m > 2 THEN m - 3 ELSE m + 9) + 2) \div 5 + d - 1

DaysFromEra(era, yoe, doy) ==
  era * 146097 + yoe * 365 + yoe \div 4 - yoe \div 100 + doy - 719468

DaysFromCivil(y, m, d) ==
  DaysFromEra(ShiftedYear(y, m) \div 400, ShiftedYear(y, m) % 400, DayOfYear(m, d))

\* new Date(text) for the date-only form YYYY-MM-DD (UTC midnight); any other text
\* is taken as unparseable.
Digit(text, i) == text[i] - 48

DateFromParts(y, m, d) ==
  IF m >= 1 /\ m <= 12 /\ d >= 1 /\ d <= DaysInMonth(y, m)
    THEN [valid |-> TRUE, days |-> DaysFromCivil(y, m, d), ms |-> 0]
    ELSE InvalidDate

DateFromString(text) ==
  IF Len(text) = 10
     /\ \A i \in {1, 2, 3, 4, 6, 7, 9, 10} : IsDigit(text[i])
     /\ text[5] = 45 /\ text[8] = 45
  THEN DateFromParts(Digit(text, 1) * 1000 + Digit(text, 2) * 100 + Digit(text, 3) * 10
                       + Digit(text, 4),
                     Digit(text, 6) * 10 + Digit(text, 7),
                     Digit(text, 9) * 10 + Digit(text, 10))
  ELSE InvalidDate

\* new Date()
DateNow == [valid |-> TRUE, days |-> 0, ms |-> now]

(***************************************************************************)
(* Row decoders.  Each yields [outcome, bad, value]: "kept" with the value *)
(* to store, "dropped" on an early return, "threw" when a read raised a    *)
(* RangeError; bad holds the requests that raised.                         *)
(***************************************************************************)
Kept(value, bad) == [outcome |-> "kept", bad |-> bad, value |-> value]
Dropped(bad) == [outcome |-> "dropped", bad |-> bad, value |-> <<>>]
Threw(bad) == [outcome |-> "threw", bad |-> bad, value |-> <<>>]

\* name = readDeviceSqlString(...); if (name) map.set(id, name)
Named(id, s) ==
  IF NonEmpty(s.text) THEN Kept([id |-> id, name |-> s.text], s.bad) ELSE Dropped(s.bad)

KeepIfNamed(id, offset) == Bind(ReadString(offset), LAMBDA s : Named(id, s))

HasLongNameOffset(subtype) == (subtype \div 4) % 2 = 1

\* The artist and album cases of parseSimpleRow: id at idOfs, the name offset as
\* u16 at farOfs when subtype & 0x04, else as u8 at nearOfs.
NameOffsetReq(rowBase, far, farOfs, nearOfs) ==
  IF far THEN Req(rowBase + farOfs, 2) ELSE Req(rowBase + nearOfs, 1)

NameOffset(rowBase, far, farOfs, nearOfs) ==
  IF far THEN getUint16(rowBase + farOfs) ELSE getUint8(rowBase + nearOfs)

NamedRow(rowBase, id, far, farOfs, nearOfs) ==
  IF id = 0 THEN Dropped({})
  ELSE IF far /\ rowBase + farOfs + 2 > bufferLength THEN Dropped({})
  ELSE IF FirstBad(<<NameOffsetReq(rowBase, far, farOfs, nearOfs)>>) # {}
    THEN Threw({NameOffsetReq(rowBase, far, farOfs, nearOfs)})
  ELSE IF NameOffset(rowBase, far, farOfs, nearOfs) > MAX_STRING_OFFSET THEN Dropped({})
  ELSE KeepIfNamed(id, rowBase + NameOffset(rowBase, far, farOfs, nearOfs))

ParseNamedRow(rowBase, minSize, idOfs, farOfs, nearOfs) ==
  IF rowBase + minSize > bufferLength THEN Dropped({})
  ELSE IF FirstBad(<<Req(rowBase, 2), Req(rowBase + idOfs, 4)>>) # {}
    THEN Threw(FirstBad(<<Req(rowBase, 2), Req(rowBase + idOfs, 4)>>))
  ELSE NamedRow(rowBase, getUint32(rowBase + idOfs), HasLongNameOffset(getUint16(rowBase)),
                farOfs, nearOfs)

\* The genre, key and label cases: id at 0, the name at nameOfs.
ParseIdNameRow(rowBase, nameOfs) ==
  IF rowBase + nameOfs > bufferLength THEN Dropped({})
  ELSE IF FirstBad(<<Req(rowBase, 4)>>) # {} THEN Threw({Req(rowBase, 4)})
  ELSE IF getUint32(rowBase) = 0 THEN Dropped({})
  ELSE KeepIfNamed(getUint32(rowBase), rowBase + nameOfs)

parseSimpleRow(rowBase, pageType) ==
  IF rowBase + 10 > bufferLength THEN Dropped({})
  ELSE IF pageType = PAGE_TYPE_ARTISTS THEN ParseNamedRow(rowBase, 10, 4, 10, 9)
  ELSE IF pageType = PAGE_TYPE_ALBUMS THEN ParseNamedRow(rowBase, 18, 12, 22, 17)
  ELSE IF pageType = PAGE_TYPE_GENRES THEN ParseIdNameRow(rowBase, 4)
  ELSE IF pageType = PAGE_TYPE_KEYS THEN ParseIdNameRow(rowBase, 8)
  ELSE IF pageType = PAGE_TYPE_LABELS THEN ParseIdNameRow(rowBase, 4)
  ELSE Dropped({})

TreeRowReqs(rowBase) ==
  <<Req(rowBase, 4), Req(rowBase + 8, 4), Req(rowBase + 12, 4), Req(rowBase + 16, 4)>>

\* A tree row kept whatever its id
TreeNodeAnyId(id, parentId, sortOrder, rawIsFolder, s) ==
  IF NonEmpty(s.text)
    THEN Kept([id |-> id, name |-> s.text, parentId |-> parentId,
               isFolder |-> rawIsFolder # 0, sortOrder |-> sortOrder], s.bad)
  ELSE Dropped(s.bad)

TreeNode(id, parentId, sortOrder, rawIsFolder, s) ==
  IF id = 0 THEN Dropped({})
  ELSE IF NonEmpty(s.text) /\ id > 0
    THEN Kept([id |-> id, name |-> s.text, parentId |-> parentId,
               isFolder |-> rawIsFolder # 0, sortOrder |-> sortOrder], s.bad)
  ELSE Dropped(s.bad)

parsePlaylistTreeRow(rowBase) ==
  IF rowBase + 20 > bufferLength THEN Dropped({})
  ELSE IF FirstBad(TreeRowReqs(rowBase)) # {} THEN Threw(FirstBad(TreeRowReqs(rowBase)))
  ELSE Bind(ReadString(rowBase + 20),
            LAMBDA s : TreeNode(getUint32(rowBase + 12), getUint32(rowBase),
                                getUint32(rowBase + 8), getUint32(rowBase + 16), s))

EntryRowReqs(rowBase) == <<Req(rowBase, 4), Req(rowBase + 4, 4), Req(rowBase + 8, 4)>>

Entry(entryIndex, trackId, playlistId) ==
  IF playlistId = 0 THEN Dropped({})
  ELSE IF trackId = 0 THEN Dropped({})
  ELSE Kept([playlistId |-> playlistId, trackId |-> trackId, position |-> entryIndex], {})

parsePlaylistEntryRow(rowBase) ==
  IF rowBase + 12 > bufferLength THEN Dropped({})
  ELSE IF FirstBad(EntryRowReqs(rowBase)) # {} THEN Threw(FirstBad(EntryRowReqs(rowBase)))
  ELSE Entry(getUint32(rowBase), getUint32(rowBase + 4), getUint32(rowBase + 8))

\* if (rowBase + 0x86 > bufferLength) return
TrackRowTooShort(rowBase) == rowBase + TRACK_ROW_MIN > bufferLength

\* The reads of the fixed fields, in the order of the code
TrackFieldReqs(rowBase) ==
  <<Req(rowBase + 56, 4), Req(rowBase + 60, 4), Req(rowBase + 64, 4), Req(rowBase + 68, 4),
    Req(rowBase + 72, 4), Req(rowBase + 84, 2), Req(rowBase + 89, 1), Req(rowBase + 48, 4),
    Req(rowBase + 32, 4)>>

\* The reads of the loop over the 21 string-offset slots
TrackSlotReqs(rowBase) ==
  [i \in 1..NUM_STRING_SLOTS |-> Req(rowBase + OFS_STRINGS + (i - 1) * 2, 2)]

\* ofsStrings[i], for i counted from 0 as in the code
Capped(offset) == IF offset > MAX_STRING_OFFSET THEN 0 ELSE offset

OfsString(rowBase, i) == Capped(getUint16(rowBase + OFS_STRINGS + i * 2))

\* ofs > 0 ? readDeviceSqlString(dataView, rowBase + ofs, bufferLength) : ''
SlotString(rowBase, i) ==
  IF OfsString(rowBase, i) > 0 THEN ReadString(rowBase + OfsString(rowBase, i)) ELSE EmptyString

\* The early returns on id, tempo, duration, rating and bitrate
FailsSanityGates(id, tempo, duration, rating, bitrate) ==
  \/ id = 0
  \/ tempo > MAX_TEMPO
  \/ duration > MAX_DURATION
  \/ rating > 255
  \/ bitrate > MAX_BITRATE

\* dateAddedStr ? new Date(dateAddedStr) : new Date()
DateAdded(dateAddedStr) ==
  IF NonEmpty(dateAddedStr) THEN DateFromString(dateAddedStr) ELSE DateNow

TrackFields(rowBase) ==
  [tempo |-> getUint32(rowBase + 56),
   genreId |-> getUint32(rowBase + 60),
   albumId |-> getUint32(rowBase + 64),
   artistId |-> getUint32(rowBase + 68),
   id |-> getUint32(rowBase + 72),
   duration |-> getUint16(rowBase + 84),
   rating |-> getUint8(rowBase + 89),
   bitrate |-> getUint32(rowBase + 48),
   keyId |-> getUint32(rowBase + 32)]

\* if (id > 0) trackData.set(id, { ... })
Track(m, f, title, filePath, dateAddedStr) ==
  IF f.id > 0
    THEN Kept([id |-> f.id,
               title |-> IF NonEmpty(title.text) THEN title.text ELSE UnknownTitle,
               artist |-> Lookup(m.artists, f.artistId, UnknownArtist),
               album |-> Lookup(m.albums, f.albumId, UnknownAlbum),
               genre |-> Lookup(m.genres, f.genreId, <<>>),
               duration |-> f.duration,
               bpm |-> Bpm(f.tempo),
               key |-> Lookup(m.keys, f.keyId, <<>>),
               rating |-> f.rating,
               bitrate |-> f.bitrate,
               filePath |-> filePath.text,
               dateAdded |-> DateAdded(dateAddedStr.text)],
              title.bad \cup filePath.bad \cup dateAddedStr.bad)
  ELSE Dropped(title.bad \cup filePath.bad \cup dateAddedStr.bad)

\* The row past its size guard and its fixed fields
GatedTrack(rowBase, m, f) ==
  IF FailsSanityGates(f.id, f.tempo, f.duration, f.rating, f.bitrate) THEN Dropped({})
  ELSE IF FirstBad(TrackSlotReqs(rowBase)) # {} THEN Threw(FirstBad(TrackSlotReqs(rowBase)))
  ELSE Bind(<<SlotString(rowBase, 17), SlotString(rowBase, 20), SlotString(rowBase, 10)>>,
            LAMBDA strings : Track(m, f, strings[1], strings[2], strings[3]))

\* The track row decoded before any lookup table was
TrackRowBeforeLookups(rowBase, m) ==
  IF TrackRowTooShort(rowBase) THEN Dropped({})
  ELSE IF FirstBad(TrackFieldReqs(rowBase)) # {} THEN Threw(FirstBad(TrackFieldReqs(rowBase)))
  ELSE Bind(TrackFields(rowBase),
            LAMBDA f : GatedTrack(rowBase, [artists |-> <<>>, albums |-> <<>>,
                                            genres |-> <<>>, keys |-> <<>>], f))

parseTrackRow(rowBase, m) ==
  IF TrackRowTooShort(rowBase) THEN Dropped({})
  ELSE IF FirstBad(TrackFieldReqs(rowBase)) # {} THEN Threw(FirstBad(TrackFieldReqs(rowBase)))
  ELSE Bind(TrackFields(rowBase), LAMBDA f : GatedTrack(rowBase, m, f))

(***************************************************************************)
(* The maps of one decode, and the row callbacks of the four passes        *)
(***************************************************************************)
Maps ==
  [artists |-> artists, albums |-> albums, genres |-> genres, keys |-> keys,
   labels |-> labels, playlistTree |-> playlistTree, playlistEntries |-> playlistEntries,
   trackData |-> trackData, bad |-> requests, log |-> rowLog, escaped |-> FALSE]

\* playlistEntries.get(playlistId)!.push({ trackId, position })
PushEntry(entries, e) ==
  MapSet(entries, e.playlistId,
         Append(IF e.playlistId \in DOMAIN entries THEN entries[e.playlistId] ELSE <<>>,
                [trackId |-> e.trackId, position |-> e.position]))

\* The store a kept row makes in the pass that decoded it
Store(st, pageType, value) ==
  IF pass = 1 THEN
    IF pageType = PAGE_TYPE_ARTISTS THEN [st EXCEPT !.artists = MapSet(@, value.id, value.name)]
    ELSE IF pageType = PAGE_TYPE_ALBUMS THEN [st EXCEPT !.albums = MapSet(@, value.id, value.name)]
    ELSE IF pageType = PAGE_TYPE_GENRES THEN [st EXCEPT !.genres = MapSet(@, value.id, value.name)]
    ELSE IF pageType = PAGE_TYPE_KEYS THEN [st EXCEPT !.keys = MapSet(@, value.id, value.name)]
    ELSE [st EXCEPT !.labels = MapSet(@, value.id, value.name)]
  ELSE IF pass = 2 THEN [st EXCEPT !.playlistTree = OrderedSet(@, value)]
  ELSE IF pass = 3 THEN [st EXCEPT !.playlistEntries = PushEntry(@, value)]
  ELSE [st EXCEPT !.trackData = OrderedSet(@, value)]

\* The callback parseRekordboxDatabase hands to parseTablePages in each pass
RowDecoder(st, rowBase, pageType) ==
  IF pass = 1 THEN parseSimpleRow(rowBase, pageType)
  ELSE IF pass = 2 THEN parsePlaylistTreeRow(rowBase)
  ELSE IF pass = 3 THEN parsePlaylistEntryRow(rowBase)
  ELSE parseTrackRow(rowBase, st)

\* A catch that logs and throws the error again
RethrowRowError(st) == [st EXCEPT !.escaped = TRUE]

\* catch (error) { console.error(...) }: the row is skipped, the walk goes on
CatchRowError(st) == st

\* try { rowCallback(rowBase, pageType) } catch ...
Noted(st, r, rowBase, logging) ==
  [st EXCEPT !.bad = @ \cup r.bad,
             !.log = IF logging
                       THEN Append(@, [pass |-> pass, table |-> tableIdx,
                                       rowBase |-> rowBase, outcome |-> r.outcome])
                       ELSE @]

Settled(st, r, pageType) ==
  IF r.outcome = "kept" THEN Store(st, pageType, r.value)
  ELSE IF r.outcome = "threw" THEN CatchRowError(st)
  ELSE st

TryRow(st, rowBase, pageType, logging) ==
  Bind(RowDecoder(st, rowBase, pageType),
       LAMBDA r : Settled(Noted(st, r, rowBase, logging), r, pageType))

RECURSIVE FoldRows(_, _, _, _)
FoldRows(st, rowBases, pageType, logging) ==
  IF rowBases = <<>> \/ st.escaped THEN st
  ELSE Bind(TryRow(st, Head(rowBases), pageType, logging),
            LAMBDA next : FoldRows(next, Tail(rowBases), pageType, logging))

(***************************************************************************)
(* parseTablePages: the rows of one page                                   *)
(***************************************************************************)
GroupBase(pageOffset, groupIndex) == pageOffset + lenPage - groupIndex * ROW_GROUP_STRIDE

GroupOutsidePage(groupBase, pageOffset) ==
  groupBase < pageOffset \/ groupBase > pageOffset + lenPage

BitmapOutsideHeap(groupBase, pageOffset) == groupBase - 4 < pageOffset + PAGE_HEADER_SIZE

GroupSkipped(pageOffset, groupIndex) ==
  \/ GroupOutsidePage(GroupBase(pageOffset, groupIndex), pageOffset)
  \/ BitmapOutsideHeap(GroupBase(pageOffset, groupIndex), pageOffset)

IsPresent(rowPresentFlags, rowIndex) == (rowPresentFlags \div (2 ^ rowIndex)) % 2 # 0

OfsRowPos(pageOffset, groupIndex, rowIndex) ==
  GroupBase(pageOffset, groupIndex) - 6 - rowIndex * 2

OfsRowPosInvalid(ofsRowPos, pageOffset) ==
  ofsRowPos < pageOffset + PAGE_HEADER_SIZE \/ ofsRowPos + 2 > pageOffset + lenPage

\* No check of the row base against the page
RowBaseUnchecked(rowBase, pageOffset) == FALSE

RowBaseInvalid(rowBase, pageOffset) ==
  rowBase < pageOffset + PAGE_HEADER_SIZE \/ rowBase >= pageOffset + lenPage

\* Row slot k = 16 * groupIndex + rowIndex reaches the read of its row offset
SlotRead(pageOffset, k) ==
  /\ ~GroupSkipped(pageOffset, k \div 16)
  /\ IsPresent(getUint16(GroupBase(pageOffset, k \div 16) - 4), k % 16)
  /\ ~OfsRowPosInvalid(OfsRowPos(pageOffset, k \div 16, k % 16), pageOffset)

RowBaseOf(pageOffset, k) ==
  pageOffset + PAGE_HEADER_SIZE + getUint16(OfsRowPos(pageOffset, k \div 16, k % 16))

\* Row slot k is handed to the row callback
SlotLive(pageOffset, k) ==
  SlotRead(pageOffset, k) /\ ~RowBaseInvalid(RowBaseOf(pageOffset, k), pageOffset)

NumRowGroups(numRowOffsets) == (numRowOffsets + 15) \div 16

\* The row bases handed to the callback, in the order of the two for loops
LiveSlots(pageOffset, numRowOffsets) ==
  SelectSeq([i \in 1..(16 * NumRowGroups(numRowOffsets)) |-> i - 1],
            LAMBDA k : SlotLive(pageOffset, k))

RowBases(pageOffset, live) == [i \in 1..Len(live) |-> RowBaseOf(pageOffset, live[i])]

LiveRows(pageOffset, numRowOffsets) ==
  Bind(LiveSlots(pageOffset, numRowOffsets), LAMBDA live : RowBases(pageOffset, live))

\* The reads of the row index that raise: bitmaps and row offsets
RowIndexBad(pageOffset, numRowOffsets) ==
  {Req(GroupBase(pageOffset, g) - 4, 2) :
     g \in {g \in 0..(NumRowGroups(numRowOffsets) - 1) :
              ~GroupSkipped(pageOffset, g) /\ ~InBounds(GroupBase(pageOffset, g) - 4, 2)}}
  \cup
  {Req(OfsRowPos(pageOffset, k \div 16, k % 16), 2) :
     k \in {k \in 0..(16 * NumRowGroups(numRowOffsets) - 1) :
              SlotRead(pageOffset, k)
              /\ ~InBounds(OfsRowPos(pageOffset, k \div 16, k % 16), 2)}}

(***************************************************************************)
(* parseTablePages: the page chain                                         *)
(***************************************************************************)
PageHeaderReqs(pageOffset) ==
  <<Req(pageOffset + 8, 4), Req(pageOffset + 12, 4), Req(pageOffset + 24, 4),
    Req(pageOffset + 27, 1)>>

\* if (pageIndex * lenPage >= bufferLength) return
InitialPageInvalid(firstPage) == firstPage * lenPage >= bufferLength

\* The loop condition without the visited set
WalkContinuesUnchecked(index, visited) == index > 0

\* while (pageIndex > 0 && !visitedPages.has(pageIndex))
WalkContinues(index, visited) == index > 0 /\ index \notin visited

\* The two breaks on the page offset
PageOutsideBuffer(pageOffset) ==
  pageOffset + lenPage > bufferLength \/ pageOffset + PAGE_HEADER_SIZE > bufferLength

TooManyRowOffsets(numRowOffsets) == numRowOffsets > MAX_ROW_OFFSETS

IsDataPage(pageFlags) == (pageFlags \div 64) % 2 = 0

\* nextPageIndex >= bufferLength / lenPage, the quotient being exact in the code
NextPageOutOfRange(nextPageIndex) ==
  nextPageIndex >= (bufferLength + lenPage - 1) \div lenPage

\* The breaks after the rows of a page without the one on last_page
WalkBreaksPastLast(nextPageIndex, index, lastPage, visited) ==
  \/ nextPageIndex = 0
  \/ NextPageOutOfRange(nextPageIndex)
  \/ Cardinality(visited) > MAX_VISITED_PAGES

\* The three breaks after the rows of a page
WalkBreaks(nextPageIndex, index, lastPage, visited) ==
  \/ nextPageIndex = 0
  \/ NextPageOutOfRange(nextPageIndex)
  \/ index = lastPage
  \/ Cardinality(visited) > MAX_VISITED_PAGES

\* The rows of a page: a data page of the table's type with row offsets
PageHasRows(pageFlags, pageType, tableType, numRowOffsets) ==
  IsDataPage(pageFlags) /\ pageType = tableType /\ numRowOffsets > 0

MatchesPass(type, p) ==
  IF p = 1 THEN type \in {PAGE_TYPE_ARTISTS, PAGE_TYPE_ALBUMS, PAGE_TYPE_GENRES,
                          PAGE_TYPE_KEYS, PAGE_TYPE_LABELS}
  ELSE IF p = 2 THEN type = PAGE_TYPE_PLAYLIST_TREE
  ELSE IF p = 3 THEN type = PAGE_TYPE_PLAYLIST_ENTRIES
  ELSE type = PAGE_TYPE_TRACKS

\* The tables of this pass not walked yet
Pending == {j \in (tableIdx + 1)..Len(tables) : MatchesPass(tables[j].type, pass)}

Min(S) == CHOOSE x \in S : \A y \in S : x <= y

(***************************************************************************)
(* parseRekordboxDatabase: the header                                      *)
(***************************************************************************)
TablePointer(i) ==
  [type |-> getUint32(HEADER_SIZE + 16 * i),
   firstPage |-> getUint32(HEADER_SIZE + 16 * i + 8),
   lastPage |-> getUint32(HEADER_SIZE + 16 * i + 12)]

\* The iterations of `for (i = 0; i < numTables && offset + 16 <= bufferLength; i++)`
PointersRead(numTables) ==
  IF numTables * 16 <= bufferLength - HEADER_SIZE
    THEN numTables ELSE (bufferLength - HEADER_SIZE) \div 16

\* firstPage > bufferLength / lenPage || lastPage > bufferLength / lenPage
PageIndicesInvalid(t, pageLen) ==
  t.firstPage > bufferLength \div pageLen \/ t.lastPage > bufferLength \div pageLen

ParseTablePointers(numTables, pageLen) ==
  SelectSeq([i \in 1..PointersRead(numTables) |-> TablePointer(i - 1)],
            LAMBDA t : ~PageIndicesInvalid(t, pageLen))

\* The error thrown for this file, or "none"
HeaderError ==
  IF fileSize > MAX_FILE_SIZE THEN "File too large"
  ELSE IF bufferLength < HEADER_SIZE THEN "File too small"
  ELSE IF getUint32(8) > MAX_TABLES THEN "Invalid number of tables"
  ELSE IF getUint32(4) < MIN_PAGE_LEN \/ getUint32(4) > MAX_PAGE_LEN THEN "Invalid page length"
  ELSE "none"

(***************************************************************************)
(* parseRekordboxDatabase: the assembly                                    *)
(***************************************************************************)
\* Array.prototype.sort is stable: x goes behind every element not above it
RECURSIVE InsertByKey(_, _)
InsertByKey(sorted, x) ==
  IF sorted = <<>> THEN <<x>>
  ELSE IF sorted[Len(sorted)].k <= x.k THEN Append(sorted, x)
  ELSE Append(InsertByKey(SubSeq(sorted, 1, Len(sorted) - 1), x), sorted[Len(sorted)])

RECURSIVE StableSort(_)
StableSort(keyed) ==
  IF keyed = <<>> THEN <<>>
  ELSE InsertByKey(StableSort(SubSeq(keyed, 1, Len(keyed) - 1)), keyed[Len(keyed)])

\* entries.sort((a, b) => a.position - b.position)
Values(sorted) == [i \in 1..Len(sorted) |-> sorted[i].v]

KeyedByPosition(entries) ==
  [i \in 1..Len(entries) |-> [k |-> entries[i].position, v |-> entries[i]]]

\* The entries left in decode order
Unsorted(entries) == entries

SortEntries(entries) == Values(StableSort(KeyedByPosition(entries)))

\* playlistEntries.get(id) || []
EntriesOf(entries, id) == IF id \in DOMAIN entries THEN entries[id] ELSE <<>>

\* The playlist built for one node of playlistTree, before linking
TrackIds(entries) == [i \in 1..Len(entries) |-> entries[i].trackId]

NewPlaylist(node, entries) ==
  [id |-> node.id,
   name |-> node.name,
   parentId |-> IF node.parentId = 0 THEN NULL ELSE node.parentId,
   isFolder |-> node.isFolder,
   children |-> <<>>,
   trackIds |-> TrackIds(SortEntries(EntriesOf(entries, node.id)))]

\* The ids pushed to the children of playlist id, in the order of playlistMap.forEach
Ids(nodes) == [i \in 1..Len(nodes) |-> nodes[i].id]

ChildrenOf(nodes, id) ==
  Ids(SelectSeq(nodes, LAMBDA p : p.parentId # NULL /\ p.parentId = id))

LinkChildren(nodes) ==
  [i \in 1..Len(nodes) |-> [nodes[i] EXCEPT !.children = ChildrenOf(nodes, nodes[i].id)]]

\* A filter that lets every playlist through
AnyPlaylist(p) == TRUE

\* .filter(p => p.parentId === null)
IsRoot(p) == p.parentId = NULL

SortOrderOf(tree, id) ==
  IF HasId(tree, id) THEN (CHOOSE n \in {tree[i] : i \in 1..Len(tree)} : n.id = id).sortOrder
  ELSE 0

\* .sort((a, b) => aOrder - bOrder)
KeyedBySortOrder(roots, tree) ==
  [i \in 1..Len(roots) |-> [k |-> SortOrderOf(tree, roots[i].id), v |-> roots[i]]]

\* The roots left in the order of playlistMap
UnsortedRoots(roots, tree) == roots

SortRoots(roots, tree) == Values(StableSort(KeyedBySortOrder(roots, tree)))

RootPlaylists(nodes, tree) == SortRoots(SelectSeq(nodes, IsRoot), tree)

NodeOf(nodes, id) == CHOOSE p \in {nodes[i] : i \in 1..Len(nodes)} : p.id = id

\* The Playlist object with its children objects, unfolded to depth levels
RECURSIVE PlaylistObjectTo(_, _, _)
PlaylistObjectTo(nodes, id, depth) ==
  [NodeOf(nodes, id) EXCEPT
     !.children = IF depth = 0 THEN <<>>
                  ELSE [i \in 1..Len(NodeOf(nodes, id).children) |->
                          PlaylistObjectTo(nodes, NodeOf(nodes, id).children[i], depth - 1)]]

\* The Playlist object as a value: an object that holds itself among its
\* descendants is unfolded as far as a path without repetition can go
PlaylistObject(nodes, id) == PlaylistObjectTo(nodes, id, Len(nodes))

BuildPlaylistMap(tree, entries) ==
  LinkChildren([i \in 1..Len(tree) |-> NewPlaylist(tree[i], entries)])

\* playlistEntries after the in-place sorts of the entries of every tree node
SortedInPlace(tree, entries) ==
  [id \in DOMAIN entries |-> IF HasId(tree, id) THEN SortEntries(entries[id]) ELSE entries[id]]

(***************************************************************************)
(* useRekordbox: the merge of exportExt.pdb into export.pdb                *)
(***************************************************************************)
\* t.bpm > 0
BpmPositive(bpm) == bpm.whole > 0 \/ bpm.hundredths > 0

\* new Map(extDb.tracks.map((t) => [t.id, t])).get(id): the last track of that id
ExtById(extTracks, id) ==
  extTracks[CHOOSE i \in 1..Len(extTracks) :
              /\ extTracks[i].id = id
              /\ \A j \in (i + 1)..Len(extTracks) : extTracks[j].id # id]

\* The bpm and the genre of the companion track wherever it has one
PreferExt(t, extTracks) ==
  IF ~HasId(extTracks, t.id) THEN t
  ELSE [t EXCEPT !.bpm = ExtById(extTracks, t.id).bpm,
                 !.genre = ExtById(extTracks, t.id).genre]

\* The callback of baseDb.tracks.map
MergeTrack(t, extTracks) ==
  IF ~HasId(extTracks, t.id) THEN t
  ELSE [t EXCEPT !.bpm = IF BpmPositive(t.bpm) THEN t.bpm
                         ELSE ExtById(extTracks, t.id).bpm,
                 !.genre = IF NonEmpty(t.genre) THEN t.genre
                           ELSE ExtById(extTracks, t.id).genre]

\* A merge that appends the tracks of the companion library
ConcatTracks(base, ext) == [base EXCEPT !.tracks = @ \o ext.tracks]

\* mergedDb = { ...baseDb, tracks: baseDb.tracks.map(...) }
MergeDb(base, ext) ==
  [base EXCEPT !.tracks = [i \in 1..Len(base.tracks) |-> MergeTrack(base.tracks[i], ext.tracks)]]

(***************************************************************************)
(* Actions                                                                 *)
(***************************************************************************)
SetMaps(st) ==
  /\ artists' = st.artists
  /\ albums' = st.albums
  /\ genres' = st.genres
  /\ keys' = st.keys
  /\ labels' = st.labels
  /\ playlistTree' = st.playlistTree
  /\ playlistEntries' = st.playlistEntries
  /\ trackData' = st.trackData
  /\ requests' = st.bad
  /\ rowLog' = st.log

mapVars == <<artists, albums, genres, keys, labels, playlistTree, playlistEntries,
             trackData, requests, rowLog>>

inputVars == <<fileSize, fileBytes>>

viewVars == <<status, selectedPlaylist, searchQuery, sortColumn, sortDirection, filteredTracks>>

browseVars == <<rootHandle, currentDirectory, directoryPath, fileEntries>>

loadVars == <<browseVars, tasks, disk, hist>>

hookVars == <<baseDb, extDb, mergedDb, merges, firstMerged, viewVars, loadVars>>

runVars == <<decodes, firstLibrary>>

\* parseRekordboxDatabase up to the lookup maps: size checks, header, table pointers
Open ==
  /\ pc = "start"
  /\ IF HeaderError # "none"
       THEN /\ pc' = "failed"
            /\ error' = HeaderError
            /\ UNCHANGED <<lenPage, tables>>
       ELSE /\ pc' = "walk"
            /\ error' = "none"
            /\ lenPage' = getUint32(4)
            /\ tables' = ParseTablePointers(getUint32(8), getUint32(4))
  /\ UNCHANGED <<inputVars, hookVars, now, pass, tableIdx, walking, pageIndex, visitedPages,
                 mapVars, playlistMap, library, runVars>>

\* The next table of the pass: parseTablePages up to its while loop
BeginWalk ==
  /\ pc = "walk" /\ ~walking /\ Pending # {}
  /\ tableIdx' = Min(Pending)
  /\ pageIndex' = tables[Min(Pending)].firstPage
  /\ visitedPages' = {}
  /\ walking' = (~InitialPageInvalid(tables[Min(Pending)].firstPage)
                 /\ WalkContinues(tables[Min(Pending)].firstPage, {}))
  /\ UNCHANGED <<inputVars, hookVars, now, pc, error, lenPage, tables, pass, mapVars,
                 playlistMap, library, runVars>>

StopWalk ==
  /\ walking' = FALSE
  /\ UNCHANGED <<pc, error, pageIndex, mapVars>>

\* A RangeError outside the try of the row callback leaves parseRekordboxDatabase
FailWalk(st) ==
  /\ pc' = "failed"
  /\ error' = "RangeError"
  /\ walking' = FALSE
  /\ SetMaps(st)
  /\ UNCHANGED pageIndex

\* The end of an iteration whose rows are done: the breaks, or the next page
Advance(st, nextPageIndex, lastPage, visited) ==
  /\ SetMaps(st)
  /\ UNCHANGED <<pc, error>>
  /\ IF WalkBreaks(nextPageIndex, pageIndex, lastPage, visited)
       THEN /\ walking' = FALSE
            /\ UNCHANGED pageIndex
       ELSE /\ pageIndex' = nextPageIndex
            /\ walking' = WalkContinues(nextPageIndex, visited)

AfterRows(st, nextPageIndex, lastPage) ==
  IF st.escaped
    THEN FailWalk(st)
    ELSE Advance(st, nextPageIndex, lastPage, visitedPages \cup {pageIndex})

\* The two for loops over the row groups of a page
PageRows(pageOffset, pageType, numRowOffsets, indexBad) ==
  IF indexBad # {}
    THEN [Maps EXCEPT !.bad = @ \cup indexBad, !.escaped = TRUE]
    ELSE Bind(LiveRows(pageOffset, numRowOffsets),
              LAMBDA rowBases : FoldRows(Maps, rowBases, pageType,
                                         pageIndex \notin visitedPages))

PageBody(table, pageOffset, pageType, nextPageIndex, numRowOffsets, pageFlags) ==
  IF TooManyRowOffsets(numRowOffsets) THEN StopWalk
  ELSE IF PageHasRows(pageFlags, pageType, table.type, numRowOffsets)
    THEN \E st \in {PageRows(pageOffset, pageType, numRowOffsets,
                             RowIndexBad(pageOffset, numRowOffsets))} :
           AfterRows(st, nextPageIndex, table.lastPage)
  ELSE AfterRows(Maps, nextPageIndex, table.lastPage)

ReadPage(table, pageOffset) ==
  IF PageOutsideBuffer(pageOffset) THEN StopWalk
  ELSE IF FirstBad(PageHeaderReqs(pageOffset)) # {}
    THEN FailWalk([Maps EXCEPT !.bad = @ \cup FirstBad(PageHeaderReqs(pageOffset))])
  ELSE PageBody(table, pageOffset, getUint32(pageOffset + 8), getUint32(pageOffset + 12),
                getUint32(pageOffset + 24) % 8192, getUint8(pageOffset + 27))

\* One iteration of the while loop of parseTablePages
VisitPage ==
  /\ pc = "walk" /\ walking
  /\ visitedPages' = visitedPages \cup {pageIndex}
  /\ ReadPage(tables[tableIdx], pageIndex * lenPage)
  /\ UNCHANGED <<inputVars, hookVars, now, lenPage, tables, pass, tableIdx, playlistMap, library,
                 runVars>>

\* The end of one of the first three `for (const table of tables)` loops
NextPass ==
  /\ pc = "walk" /\ ~walking /\ Pending = {} /\ pass < 4
  /\ pass' = pass + 1
  /\ tableIdx' = 0
  /\ UNCHANGED <<inputVars, hookVars, now, pc, error, lenPage, tables, walking, pageIndex,
                 visitedPages, mapVars, playlistMap, library, runVars>>

\* After the fourth pass: the track array, the playlist hierarchy, the return
Assemble ==
  /\ pc = "walk" /\ ~walking /\ Pending = {} /\ pass = 4
  /\ playlistMap' = BuildPlaylistMap(playlistTree, playlistEntries)
  /\ playlistEntries' = SortedInPlace(playlistTree, playlistEntries)
  /\ library' =
       [tracks |-> trackData,
        playlists |-> [i \in 1..Len(RootPlaylists(playlistMap', playlistTree)) |->
                         PlaylistObject(playlistMap', RootPlaylists(playlistMap', playlistTree)[i].id)]]
  /\ pc' = "done"
  /\ UNCHANGED <<inputVars, hookVars, now, error, lenPage, tables, pass, tableIdx, walking, pageIndex,
                 visitedPages, artists, albums, genres, keys, labels, playlistTree, trackData,
                 requests, rowLog, runVars>>

\* The same image decoded again (a folder selected again, a companion file reread)
Redecode ==
  /\ pc = "done" /\ decodes < MaxDecodes
  /\ decodes' = decodes + 1
  /\ firstLibrary' = IF decodes = 1 THEN library ELSE firstLibrary
  /\ pc' = "start"
  /\ error' = "none"
  /\ lenPage' = 0
  /\ tables' = <<>>
  /\ pass' = 1
  /\ tableIdx' = 0
  /\ walking' = FALSE
  /\ pageIndex' = 0
  /\ visitedPages' = {}
  /\ artists' = <<>> /\ albums' = <<>> /\ genres' = <<>> /\ keys' = <<>> /\ labels' = <<>>
  /\ playlistTree' = <<>>
  /\ playlistEntries' = <<>>
  /\ trackData' = <<>>
  /\ playlistMap' = <<>>
  /\ library' = NoLibrary
  /\ requests' = {}
  /\ rowLog' = <<>>
  /\ UNCHANGED <<inputVars, hookVars, now>>

\* Time passes
Tick ==
  /\ now < MaxClock
  /\ now' = now + 1
  /\ UNCHANGED <<inputVars, hookVars, pc, error, lenPage, tables, pass, tableIdx, walking, pageIndex,
                 visitedPages, mapVars, playlistMap, library, runVars>>

decodeVars == <<inputVars, now, pc, error, lenPage, tables, pass, tableIdx, walking,
                pageIndex, visitedPages, mapVars, playlistMap, library, runVars>>

\* selectFolder and handleFileInput: the companion library merged into the base
MergeExt ==
  /\ merges = 0
  /\ mergedDb' = MergeDb(baseDb, extDb)
  /\ firstMerged' = MergeDb(baseDb, extDb)
  /\ merges' = 1
  /\ UNCHANGED <<decodeVars, viewVars, loadVars, baseDb, extDb>>

\* The merged library merged with the same companion library once more
MergeMerged ==
  /\ merges = 1
  /\ mergedDb' = MergeDb(mergedDb, extDb)
  /\ merges' = 2
  /\ UNCHANGED <<decodeVars, viewVars, loadVars, baseDb, extDb, firstMerged>>

(***************************************************************************)
(* useRekordbox: the track list shown, getFilteredTracks                   *)
(***************************************************************************)
\* String.prototype.toLowerCase over code units below 128
ToLowerCase(text) ==
  [i \in 1..Len(text) |-> IF text[i] >= 65 /\ text[i] <= 90 THEN text[i] + 32 ELSE text[i]]

\* String.prototype.includes
Includes(text, part) ==
  \E i \in 0..(Len(text) - Len(part)) : SubSeq(text, i + 1, i + Len(part)) = part

\* White space of String.prototype.trim among the code units below 128
IsWhiteSpace(u) == u \in {9, 10, 11, 12, 13, 32}

\* String.prototype.trim
RECURSIVE Trim(_)
Trim(text) ==
  IF text = <<>> THEN <<>>
  ELSE IF IsWhiteSpace(Head(text)) THEN Trim(Tail(text))
  ELSE IF IsWhiteSpace(text[Len(text)]) THEN Trim(SubSeq(text, 1, Len(text) - 1))
  ELSE text

\* tracks.filter(t => trackIdSet.has(t.id))
InPlaylist(tracks, playlist) ==
  SelectSeq(tracks, LAMBDA t : \E i \in 1..Len(playlist.trackIds) : playlist.trackIds[i] = t.id)

\* The predicate of the search filter
QueryMatches(t, query) ==
  \/ Includes(ToLowerCase(t.title), query)
  \/ Includes(ToLowerCase(t.artist), query)
  \/ Includes(ToLowerCase(t.album), query)
  \/ Includes(ToLowerCase(t.genre), query)

\* The sign of the order of two texts by their code units
RECURSIVE CodeOrder(_, _)
CodeOrder(a, b) ==
  IF a = <<>> /\ b = <<>> THEN 0
  ELSE IF a = <<>> THEN -1
  ELSE IF b = <<>> THEN 1
  ELSE IF Head(a) < Head(b) THEN -1
  ELSE IF Head(a) > Head(b) THEN 1
  ELSE CodeOrder(Tail(a), Tail(b))

\* String.prototype.localeCompare over letters, digits and spaces: the letters
\* decide whatever their case, and between texts of the same letters the one
\* with the lower case letter at the first difference comes first
LocaleCompare(a, b) ==
  IF CodeOrder(ToLowerCase(a), ToLowerCase(b)) # 0
    THEN CodeOrder(ToLowerCase(a), ToLowerCase(b))
    ELSE 0 - CodeOrder(a, b)

Sign(n) == IF n < 0 THEN -1 ELSE IF n > 0 THEN 1 ELSE 0

BpmHundredths(bpm) == bpm.whole * 100 + bpm.hundredths

\* The comparator of the sort: switch (sortColumn), then the direction
Comparison(a, b, column) ==
  CASE column = "title" -> LocaleCompare(a.title, b.title)
    [] column = "artist" -> LocaleCompare(a.artist, b.artist)
    [] column = "album" -> LocaleCompare(a.album, b.album)
    [] column = "genre" -> LocaleCompare(a.genre, b.genre)
    [] column = "duration" -> Sign(a.duration - b.duration)
    [] column = "bpm" -> Sign(BpmHundredths(a.bpm) - BpmHundredths(b.bpm))
    [] OTHER -> 0

Directed(comparison, direction) == IF direction = "asc" THEN comparison ELSE 0 - comparison

\* Array.prototype.sort, which is stable: x goes after the last element that
\* does not come after it
RECURSIVE InsertTrack(_, _, _, _)
InsertTrack(sorted, x, column, direction) ==
  IF sorted = <<>> THEN <<x>>
  ELSE IF Directed(Comparison(sorted[Len(sorted)], x, column), direction) <= 0
    THEN Append(sorted, x)
  ELSE Append(InsertTrack(SubSeq(sorted, 1, Len(sorted) - 1), x, column, direction),
              sorted[Len(sorted)])

RECURSIVE SortTracks(_, _, _)
SortTracks(tracks, column, direction) ==
  IF tracks = <<>> THEN <<>>
  ELSE InsertTrack(SortTracks(SubSeq(tracks, 1, Len(tracks) - 1), column, direction),
                   tracks[Len(tracks)], column, direction)

\* selectedPlaylist === null
NoPlaylist ==
  [id |-> NULL, name |-> <<>>, parentId |-> NULL, isFolder |-> FALSE, children |-> <<>>,
   trackIds |-> <<>>]

\* The tracks of the selected playlist, or all tracks for no playlist or a folder
SelectionOf(tracks, playlist) ==
  IF playlist # NoPlaylist /\ ~playlist.isFolder THEN InPlaylist(tracks, playlist) ELSE tracks

\* The selection with the search filter applied
Searched(tracks, query) ==
  IF Trim(query) # <<>>
    THEN SelectSeq(tracks, LAMBDA t : QueryMatches(t, ToLowerCase(query)))
    ELSE tracks

getFilteredTracks(st, playlist, query, column, direction) ==
  IF st.type # "valid" THEN <<>>
  ELSE SortTracks(Searched(SelectionOf(st.database.tracks, playlist), query), column, direction)

\* The playlists of a library, parents before their children
RECURSIVE AllPlaylists(_)
AllPlaylists(playlists) ==
  IF playlists = <<>> THEN <<>>
  ELSE <<Head(playlists)>> \o AllPlaylists(Head(playlists).children)
         \o AllPlaylists(Tail(playlists))

\* The playlists the sidebar offers: those of the library shown, and "All Tracks"
Selectable ==
  {NoPlaylist} \cup (IF status.type = "valid"
                 THEN {AllPlaylists(status.database.playlists)[i] :
                         i \in 1..Len(AllPlaylists(status.database.playlists))}
                 ELSE {})

\* setSearchQuery from the search bar, and the render that follows
SetSearchQuery(query) ==
  /\ searchQuery' = query
  /\ filteredTracks' = getFilteredTracks(status, selectedPlaylist, query, sortColumn, sortDirection)
  /\ UNCHANGED <<decodeVars, loadVars, baseDb, extDb, mergedDb, merges, firstMerged, status,
                 selectedPlaylist, sortColumn, sortDirection>>

\* setSelectedPlaylist from the sidebar, and the render that follows
SetSelectedPlaylist(playlist) ==
  /\ selectedPlaylist' = playlist
  /\ filteredTracks' = getFilteredTracks(status, playlist, searchQuery, sortColumn, sortDirection)
  /\ UNCHANGED <<decodeVars, loadVars, baseDb, extDb, mergedDb, merges, firstMerged, status,
                 searchQuery, sortColumn, sortDirection>>

\* handleSort on the header of the current column: the direction flips
handleSortSame ==
  /\ sortDirection' = IF sortDirection = "asc" THEN "desc" ELSE "asc"
  /\ filteredTracks' = getFilteredTracks(status, selectedPlaylist, searchQuery, sortColumn,
                                         IF sortDirection = "asc" THEN "desc" ELSE "asc")
  /\ UNCHANGED <<decodeVars, loadVars, baseDb, extDb, mergedDb, merges, firstMerged, status,
                 selectedPlaylist, searchQuery, sortColumn>>

\* handleSort on the header of another column: that column, ascending
handleSortOther(column) ==
  /\ column # sortColumn
  /\ sortColumn' = column
  /\ sortDirection' = "asc"
  /\ filteredTracks' = getFilteredTracks(status, selectedPlaylist, searchQuery, column, "asc")
  /\ UNCHANGED <<decodeVars, loadVars, baseDb, extDb, mergedDb, merges, firstMerged, status,
                 selectedPlaylist, searchQuery>>

(***************************************************************************)
(* Input images.  An image is laid out from a description: header fields,  *)
(* table pointers, and pages with their header fields and rows.            *)
(***************************************************************************)
NoBytes == [o \in {} |-> 0]

Put8(o, v) == o :> v
Put16(o, v) == (o :> (v % 256)) @@ ((o + 1) :> ((v \div 256) % 256))
Put32(o, v) == [i \in o..(o + 3) |-> (v \div (256 ^ (i - o))) % 256]
PutBytes(o, bytes) == [i \in o..(o + Len(bytes) - 1) |-> bytes[i - o + 1]]

RECURSIVE Overlay(_)
Overlay(parts) == IF parts = <<>> THEN NoBytes ELSE Head(parts) @@ Overlay(Tail(parts))

RECURSIVE SumOf(_)
SumOf(ns) == IF ns = <<>> THEN 0 ELSE Head(ns) + SumOf(Tail(ns))

\* The device string of a text of code units below 128, in the short form
ShortAscii(text) == <<2 * (Len(text) + 1) + 1>> \o text

TrackRowImage(r, t) ==
  Overlay(<<Put32(r + 32, t.keyId), Put32(r + 48, t.bitrate), Put32(r + 56, t.tempo),
            Put32(r + 60, t.genreId), Put32(r + 64, t.albumId), Put32(r + 68, t.artistId),
            Put32(r + 72, t.id), Put16(r + 84, t.duration), Put8(r + 89, t.rating),
            IF t.title = <<>> THEN NoBytes
              ELSE Put16(r + 94 + 2 * 17, t.titleOfs) @@ PutBytes(r + t.titleOfs, t.title),
            IF t.date = <<>> THEN NoBytes
              ELSE Put16(r + 94 + 2 * 10, 152) @@ PutBytes(r + 152, t.date)>>)

TreeRowImage(r, n) ==
  Overlay(<<Put32(r, n.parentId), Put32(r + 8, n.sortOrder), Put32(r + 12, n.id),
            Put32(r + 16, n.isFolder), PutBytes(r + 20, n.name)>>)

EntryRowImage(r, e) ==
  Overlay(<<Put32(r, e.position), Put32(r + 4, e.trackId), Put32(r + 8, e.playlistId)>>)

\* Artist and album rows: the name offset in the near byte, or in the far u16
\* when subtype & 0x04
ArtistRowImage(r, a) ==
  Overlay(<<Put16(r, IF a.far THEN 100 ELSE 96), Put32(r + 4, a.id),
            IF a.far THEN Put16(r + 10, 12) ELSE Put8(r + 9, 12),
            PutBytes(r + 12, a.name)>>)

AlbumRowImage(r, a) ==
  Overlay(<<Put16(r, IF a.far THEN 132 ELSE 128), Put32(r + 12, a.id),
            IF a.far THEN Put16(r + 22, 24) ELSE Put8(r + 17, 24),
            PutBytes(r + 24, a.name)>>)

\* Artist and album rows with the far name offset, the name nameOfs bytes
\* after the row base
ArtistRowAtImage(r, a) ==
  Overlay(<<Put16(r, 100), Put32(r + 4, a.id), Put16(r + 10, a.nameOfs),
            PutBytes(r + a.nameOfs, a.name)>>)

AlbumRowAtImage(r, a) ==
  Overlay(<<Put16(r, 132), Put32(r + 12, a.id), Put16(r + 22, a.nameOfs),
            PutBytes(r + a.nameOfs, a.name)>>)

GenreRowImage(r, g) == Overlay(<<Put32(r, g.id), PutBytes(r + 4, g.name)>>)

KeyRowImage(r, k) == Overlay(<<Put32(r, k.id), Put32(r + 4, k.id), PutBytes(r + 8, k.name)>>)

RowImage(r, row) ==
  IF row.kind = "track" THEN TrackRowImage(r, row)
  ELSE IF row.kind = "tree" THEN TreeRowImage(r, row)
  ELSE IF row.kind = "artist" THEN ArtistRowImage(r, row)
  ELSE IF row.kind = "album" THEN AlbumRowImage(r, row)
  ELSE IF row.kind = "artistAt" THEN ArtistRowAtImage(r, row)
  ELSE IF row.kind = "albumAt" THEN AlbumRowAtImage(r, row)
  ELSE IF row.kind = "genre" THEN GenreRowImage(r, row)
  ELSE IF row.kind = "key" THEN KeyRowImage(r, row)
  ELSE EntryRowImage(r, row)

\* Row i of a page takes row slot i - 1 and lies at heap offset rows[i].ofs
PageImage(pageLen, index, page) ==
  LET po == index * pageLen
      n == Len(page.rows)
      groups == {(i - 1) \div 16 : i \in 1..n}
      bitmap(g) == SumOf([i \in 1..n |-> IF (i - 1) \div 16 = g THEN 2 ^ ((i - 1) % 16) ELSE 0])
  IN Overlay(<<Put32(po + 8, page.type), Put32(po + 12, page.next),
               Put16(po + 24, page.numRowOffsets), Put8(po + 27, page.flags)>>
             \o [i \in 1..n |->
                   Put16(po + pageLen - 36 * ((i - 1) \div 16) - 6 - 2 * ((i - 1) % 16),
                         page.rows[i].ofs)]
             \o [i \in 1..n |->
                   Put16(po + pageLen - 36 * ((i - 1) \div 16) - 4, bitmap((i - 1) \div 16))]
             \o [i \in 1..n |-> RowImage(po + 40 + page.rows[i].ofs, page.rows[i])])

Image(d) ==
  Overlay(<<Put32(4, d.lenPage), Put32(8, d.numTables)>>
          \o [i \in 1..Len(d.tables) |->
                Overlay(<<Put32(28 + 16 * (i - 1), d.tables[i].type),
                          Put32(28 + 16 * (i - 1) + 8, d.tables[i].firstPage),
                          Put32(28 + 16 * (i - 1) + 12, d.tables[i].lastPage)>>)]
          \o [i \in 1..Len(d.pages) |-> PageImage(d.lenPage, i, d.pages[i])])

Table(type, firstPage, lastPage) == [type |-> type, firstPage |-> firstPage, lastPage |-> lastPage]

Page(type, next, rows) ==
  [type |-> type, next |-> next, numRowOffsets |-> Len(rows), flags |-> 0, rows |-> rows]

File(size, pageLen, tbls, pages) ==
  [size |-> size, lenPage |-> pageLen, numTables |-> Len(tbls), tables |-> tbls, pages |-> pages]

\* All sequences of length n over S
SeqsOf(S, n) == [1..n -> S]

Clip(bytes, size) == [o \in {x \in DOMAIN bytes : x < size} |-> bytes[o]]

(***************************************************************************)
(* Input families                                                          *)
(***************************************************************************)
TrackRow(id, tempo, duration, bitrate, title, date) ==
  [kind |-> "track", ofs |-> 0, id |-> id, tempo |-> tempo, duration |-> duration,
   bitrate |-> bitrate, rating |-> 3, artistId |-> 0, albumId |-> 0, genreId |-> 0,
   keyId |-> 0, title |-> title, titleOfs |-> 136, date |-> date]

TreeRow(id, parentId, sortOrder, name) ==
  [kind |-> "tree", ofs |-> 0, id |-> id, parentId |-> parentId, sortOrder |-> sortOrder,
   isFolder |-> IF parentId = 0 THEN 1 ELSE 0, name |-> name]

EntryRow(playlistId, trackId, position) ==
  [kind |-> "entry", ofs |-> 0, playlistId |-> playlistId, trackId |-> trackId,
   position |-> position]

\* The rows laid out one after the other, stride bytes apart
Stacked(rows, stride) == [i \in 1..Len(rows) |-> [rows[i] EXCEPT !.ofs = (i - 1) * stride]]

TextT == <<84>>
TextA == <<65>>
TextB == <<66>>
TextC == <<67>>
TextD == <<68>>
TextZ == <<90>>
TextDate == <<50, 48, 50, 48, 45, 48, 49, 45, 48, 50>>

\* Header fields at and around every limit, over files without table pointers
HeaderFiles ==
  {[size |-> size, lenPage |-> pageLen, numTables |-> n, tables |-> <<>>, pages |-> <<>>] :
     size \in {0, 27, 28, 44, 2048, MAX_FILE_SIZE, MAX_FILE_SIZE + 1},
     pageLen \in {511, 512, MAX_PAGE_LEN, MAX_PAGE_LEN + 1},
     n \in {0, 1, MAX_TABLES, MAX_TABLES + 1}}

PlainTrack(id) == TrackRow(id, 12000 + id, 180, 320, <<>>, <<>>)

\* One track table over pages 1..MaxPages, one track per page, every next_page vector
ChainFiles ==
  {File((MaxPages + 1) * 512, 512, <<Table(PAGE_TYPE_TRACKS, 1, MaxPages)>>,
        [p \in 1..MaxPages |-> Page(PAGE_TYPE_TRACKS, next[p], <<PlainTrack(p)>>)]) :
     next \in [1..MaxPages -> 0..(MaxPages + 2)]}

\* A straight chain under every first_page and last_page, the file whole or one byte short
EndpointFiles ==
  {File((MaxPages + 1) * 512 - cut, 512, <<Table(PAGE_TYPE_TRACKS, first, last)>>,
        [p \in 1..MaxPages |-> Page(PAGE_TYPE_TRACKS, p + 1, <<PlainTrack(p)>>)]) :
     first \in 0..(MaxPages + 2), last \in 0..(MaxPages + 1), cut \in {0, 1}}

PageOfKind(kind, p) ==
  LET page == Page(PAGE_TYPE_TRACKS, p + 1, <<PlainTrack(p)>>) IN
    IF kind = "index" THEN [page EXCEPT !.flags = 64]
    ELSE IF kind = "other" THEN [page EXCEPT !.type = PAGE_TYPE_GENRES]
    ELSE IF kind = "toomany" THEN [page EXCEPT !.numRowOffsets = MAX_ROW_OFFSETS + 1]
    ELSE IF kind = "many" THEN [page EXCEPT !.numRowOffsets = MAX_ROW_OFFSETS]
    ELSE IF kind = "empty" THEN [page EXCEPT !.numRowOffsets = 0]
    ELSE page

\* A straight chain whose pages are data, index, foreign, oversized or empty pages
PageKindFiles ==
  {File((MaxPages + 1) * 512, 512, <<Table(PAGE_TYPE_TRACKS, 1, MaxPages)>>,
        [p \in 1..MaxPages |-> PageOfKind(kind[p], p)]) :
     kind \in [1..MaxPages -> {"data", "index", "other", "toomany", "many", "empty"}]}

TrackPalette ==
  {TrackRow(1, 12800, 180, 320, ShortAscii(TextT), ShortAscii(TextDate)),
   TrackRow(1, 9000, 200, 128, <<>>, <<>>),
   TrackRow(2, MAX_TEMPO, MAX_DURATION, MAX_BITRATE, <<>>, <<>>),
   TrackRow(0, 12800, 180, 320, ShortAscii(TextT), <<>>),
   TrackRow(3, MAX_TEMPO + 1, 180, 320, <<>>, <<>>),
   TrackRow(3, 12800, MAX_DURATION + 1, 320, <<>>, <<>>),
   TrackRow(3, 12800, 180, MAX_BITRATE + 1, <<>>, <<>>)}

\* One page of MaxTrackRows track rows
TrackFiles ==
  {File(2048, 1024, <<Table(PAGE_TYPE_TRACKS, 1, 1)>>,
        <<Page(PAGE_TYPE_TRACKS, 0, Stacked(rows, 168))>>) :
     rows \in SeqsOf(TrackPalette, MaxTrackRows)}

\* One track row that ends within a few bytes of the end of the file
TailFiles ==
  {File(2048 + extra, 1024, <<Table(PAGE_TYPE_TRACKS, 1, 1)>>,
        <<Page(PAGE_TYPE_TRACKS, 0,
               <<[TrackRow(2, MAX_TEMPO, MAX_DURATION, MAX_BITRATE, <<>>, <<>>)
                    EXCEPT !.ofs = 1024 - 40 - back]>>)>>) :
     back \in 133..137, extra \in 0..2}

TreePalette ==
  {TreeRow(1, 0, 2, ShortAscii(TextA)),
   TreeRow(2, 1, 1, ShortAscii(TextB)),
   TreeRow(3, 1, 0, ShortAscii(TextC)),
   TreeRow(2, 0, 0, ShortAscii(TextD)),
   TreeRow(1, 0, 0, ShortAscii(<<>>)),
   TreeRow(0, 0, 0, ShortAscii(TextZ))}

\* One page of MaxTreeRows playlist tree rows
TreeFiles ==
  {File(1024, 512, <<Table(PAGE_TYPE_PLAYLIST_TREE, 1, 1)>>,
        <<Page(PAGE_TYPE_PLAYLIST_TREE, 0, Stacked(rows, 24))>>) :
     rows \in SeqsOf(TreePalette, MaxTreeRows)}

\* Device strings of every form: well formed, of invalid length, cut short
NamePalette ==
  {<<5, 65>>, <<3>>, <<2>>, <<9, 65, 66, 67>>, <<1>>, <<8, 65, 66, 67>>,
   <<64, 4, 0, 0>>, <<144, 4, 0, 0>>,
   <<64, 6, 0, 0, 65, 66>>, <<64, 3, 0, 0>>, <<64, 200, 0, 0, 65>>, <<64, 5, 0, 0, 128>>,
   <<144, 8, 0, 0, 65, 0, 66, 0>>, <<144, 7, 0, 0, 65, 0, 66>>,
   <<144, 8, 0, 0, 255, 254, 65, 0>>, <<144, 6, 0, 0, 0, 216>>}

MaxNameRoom == 8

\* One track whose title lies behind its page, in the last bytes of the file
StringFiles ==
  {File(1024 + room, 512, <<Table(PAGE_TYPE_TRACKS, 1, 1)>>,
        <<Page(PAGE_TYPE_TRACKS, 0,
               <<[TrackRow(1, 12800, 180, 320, name, <<>>) EXCEPT !.titleOfs = 512 - 40]>>)>>) :
     name \in NamePalette, room \in 0..MaxNameRoom}

CyclePalette ==
  {TreeRow(1, 0, 0, ShortAscii(TextA)),
   TreeRow(2, 1, 0, ShortAscii(TextB)),
   TreeRow(3, 3, 0, ShortAscii(TextC)),
   TreeRow(4, 5, 0, ShortAscii(TextD)),
   TreeRow(5, 4, 0, ShortAscii(TextZ)),
   TreeRow(2, 4, 1, ShortAscii(TextD))}

MaxCycleRows == 4

\* One page of playlist tree rows whose parent_id values loop: a node that is
\* its own parent, two nodes that are each the parent of the other
CycleFiles ==
  {File(1024, 512, <<Table(PAGE_TYPE_PLAYLIST_TREE, 1, 1)>>,
        <<Page(PAGE_TYPE_PLAYLIST_TREE, 0, Stacked(rows, 24))>>) :
     rows \in SeqsOf(CyclePalette, MaxCycleRows)}

\* Heap offsets of genre rows: the first and the last byte of the heap of a page
\* of 512 bytes, the byte after it, and offsets in between
RowIndexPlacings == {<<0>>, <<472>>, <<0, 471>>, <<100, 472>>, <<0, 100>>}

\* Counts of row offsets: one group, and groups whose bitmap and row offsets
\* would lie in the page header or in the heap
RowIndexCounts == {1, 2, 209, 240}

\* One page of genre rows for a genre table: data and index pages, of the
\* table's type and of another, wholly inside the file and cut short
RowIndexFiles ==
  {File(size, 512, <<Table(PAGE_TYPE_GENRES, 1, 1)>>,
        <<[Page(type, 0, [i \in 1..Len(placing) |->
                            [kind |-> "genre", ofs |-> placing[i], id |-> i,
                             name |-> ShortAscii(TextA)]])
             EXCEPT !.numRowOffsets = count, !.flags = flags]>>) :
     size \in {1023, 1024}, type \in {PAGE_TYPE_GENRES, PAGE_TYPE_ARTISTS},
     placing \in RowIndexPlacings, count \in RowIndexCounts, flags \in {0, 64}}

\* An artist table and an album table of one row each, the name of the row far
\* from the row base: 10000 bytes and 10001 bytes after it, inside the file
FarNameFiles ==
  {File(24 * 512, 512,
        <<Table(PAGE_TYPE_ARTISTS, 1, 1), Table(PAGE_TYPE_ALBUMS, 2, 2)>>,
        <<Page(PAGE_TYPE_ARTISTS, 0,
               <<[kind |-> "artistAt", ofs |-> 0, id |-> id, nameOfs |-> artistOfs,
                  name |-> name]>>),
          Page(PAGE_TYPE_ALBUMS, 0,
               <<[kind |-> "albumAt", ofs |-> 0, id |-> 3 - id, nameOfs |-> albumOfs,
                  name |-> name]>>)>>) :
     id \in {0, 1, 2}, artistOfs \in {24, MAX_STRING_OFFSET, MAX_STRING_OFFSET + 1},
     albumOfs \in {24, MAX_STRING_OFFSET, MAX_STRING_OFFSET + 1},
     name \in {ShortAscii(TextA), ShortAscii(<<>>)}}

EntryPalette ==
  {EntryRow(1, 10, 2), EntryRow(1, 11, 1), EntryRow(1, 12, 1), EntryRow(2, 10, 0),
   EntryRow(0, 10, 0), EntryRow(1, 0, 3)}

\* Two playlists, MaxEntryRows entry rows and the one track with id 10
EntryFiles ==
  {File(2048, 512,
        <<Table(PAGE_TYPE_PLAYLIST_ENTRIES, 2, 2), Table(PAGE_TYPE_TRACKS, 3, 3),
          Table(PAGE_TYPE_PLAYLIST_TREE, 1, 1)>>,
        <<Page(PAGE_TYPE_PLAYLIST_TREE, 0,
               Stacked(<<TreeRow(1, 0, 0, ShortAscii(TextA)),
                         TreeRow(2, 1, 0, ShortAscii(TextB))>>, 24)),
          Page(PAGE_TYPE_PLAYLIST_ENTRIES, 0, Stacked(rows, 12)),
          Page(PAGE_TYPE_TRACKS, 0, <<PlainTrack(10)>>)>>) :
     rows \in SeqsOf(EntryPalette, MaxEntryRows)}

LookupPalette ==
  {[id |-> 1, name |-> ShortAscii(TextA)], [id |-> 1, name |-> ShortAscii(TextB)],
   [id |-> 2, name |-> ShortAscii(TextC)], [id |-> 2, name |-> ShortAscii(<<>>)]}

MaxLookupRows == 2

\* A page of the rows as rows of one kind of lookup table
LookupPage(kind, type, rows, far) ==
  Page(type, 0,
       Stacked([i \in 1..Len(rows) |->
                  [kind |-> kind, ofs |-> 0, id |-> rows[i].id, name |-> rows[i].name,
                   far |-> far]], 40))

\* The pages of the tables in the order of their descriptors in the header
TableOrders == {<<1, 2, 3, 4, 5>>, <<5, 1, 2, 3, 4>>, <<2, 5, 4, 1, 3>>}

TypeOfLookupPage ==
  <<PAGE_TYPE_ARTISTS, PAGE_TYPE_ALBUMS, PAGE_TYPE_GENRES, PAGE_TYPE_KEYS, PAGE_TYPE_TRACKS>>

\* Four lookup tables and one track that refers to them, the table descriptors
\* in several orders
LookupFiles ==
  {File(3072, 512,
        [i \in 1..5 |-> Table(TypeOfLookupPage[order[i]], order[i], order[i])],
        <<LookupPage("artist", PAGE_TYPE_ARTISTS, rows, FALSE),
          LookupPage("album", PAGE_TYPE_ALBUMS, rows, TRUE),
          LookupPage("genre", PAGE_TYPE_GENRES, rows, FALSE),
          LookupPage("key", PAGE_TYPE_KEYS, rows, FALSE),
          Page(PAGE_TYPE_TRACKS, 0,
               <<[PlainTrack(7) EXCEPT !.artistId = a, !.albumId = b,
                                       !.genreId = a, !.keyId = b]>>)>>) :
     rows \in SeqsOf(LookupPalette, MaxLookupRows), a \in 1..3, b \in 1..3,
     order \in TableOrders}

FilesOf(family) ==
  CASE family = "header" -> HeaderFiles
    [] family = "chain" -> ChainFiles
    [] family = "endpoint" -> EndpointFiles
    [] family = "pagekind" -> PageKindFiles
    [] family = "track" -> TrackFiles
    [] family = "tail" -> TailFiles
    [] family = "tree" -> TreeFiles
    [] family = "entry" -> EntryFiles
    [] family = "string" -> StringFiles
    [] family = "lookup" -> LookupFiles
    [] family = "cycle" -> CycleFiles
    [] family = "rowindex" -> RowIndexFiles
    [] family = "farname" -> FarNameFiles

WalkFamilies == {"chain", "endpoint"}
TrackFamilies == {"track", "tail"}
AllFamilies ==
  {"header", "pagekind", "tree", "entry", "string", "lookup", "cycle", "rowindex", "farname"} \cup WalkFamilies \cup TrackFamilies

(***************************************************************************)
(* Input libraries of the merge                                            *)
(***************************************************************************)
TextH == <<72>>

MaxMergeTracks == 2

MergeIds == 1..3

\* A track as the decoder returns it
LibraryTrack(id, title, duration, tempo, genre) ==
  [id |-> id, title |-> title, artist |-> UnknownArtist, album |-> UnknownAlbum,
   genre |-> genre, duration |-> duration, bpm |-> Bpm(tempo), key |-> <<>>, rating |-> 0,
   bitrate |-> 320, filePath |-> <<>>, dateAdded |-> DateFromString(TextDate)]

\* The sequences of at most n elements of S, no element twice
DistinctSeqs(S, n) ==
  UNION {{q \in SeqsOf(S, k) : \A i \in 1..k : \A j \in 1..k : q[i] = q[j] => i = j} :
           k \in 0..n}

BaseVariants == {[tempo |-> t, genre |-> g] : t \in {0, 12800}, g \in {<<>>, TextH}}

ExtVariants == {[tempo |-> 12000, genre |-> TextT], [tempo |-> 0, genre |-> <<>>]}

TracksOver(ids, title, duration, variants) ==
  {[i \in 1..Len(ids) |-> LibraryTrack(ids[i], title, duration, v[i].tempo, v[i].genre)] :
     v \in SeqsOf(variants, Len(ids))}

BasePlaylists ==
  <<[id |-> 1, name |-> TextA, parentId |-> NULL, isFolder |-> FALSE, children |-> <<>>,
     trackIds |-> <<1, 2>>]>>

BaseLibraries ==
  {[tracks |-> ts, playlists |-> BasePlaylists] :
     ts \in UNION {TracksOver(ids, TextA, 180, BaseVariants) :
                     ids \in DistinctSeqs(MergeIds, MaxMergeTracks)}}

ExtLibraries ==
  {[tracks |-> ts, playlists |-> <<>>] :
     ts \in UNION {TracksOver(ids, TextB, 200, ExtVariants) :
                     ids \in DistinctSeqs(MergeIds, MaxMergeTracks)}}

(***************************************************************************)
(* Libraries to search                                                     *)
(***************************************************************************)
TextFm == <<70, 109>>
TextFM == <<70, 77>>
Text12 == <<49, 50>>

MaxSearchTracks == 2

SearchTrack(id, title, genre, key, tempo) ==
  [LibraryTrack(id, title, 180 + id, tempo, genre) EXCEPT
     !.artist = TextA, !.album = TextB, !.key = key]

\* One track that has the letters "Fm" in its key only, one in its title, one in
\* its genre, one nowhere
SearchPalette ==
  {SearchTrack(1, TextH, <<>>, TextFm, 12800),
   SearchTrack(2, TextFM, <<>>, <<>>, 9000),
   SearchTrack(3, TextZ, TextFm, <<>>, 0),
   SearchTrack(4, TextZ, TextH, TextA, 12050)}

SearchPlaylists ==
  <<[id |-> 1, name |-> TextA, parentId |-> NULL, isFolder |-> TRUE,
     children |-> <<[id |-> 2, name |-> TextB, parentId |-> 1, isFolder |-> FALSE,
                     children |-> <<>>, trackIds |-> <<1, 4>>]>>,
     trackIds |-> <<>>]>>

SearchLibraries ==
  {[tracks |-> ts, playlists |-> SearchPlaylists] :
     ts \in {q \in DistinctSeqs(SearchPalette, MaxSearchTracks) :
               \A i \in 1..Len(q) : \A j \in 1..Len(q) : q[i].id = q[j].id => i = j}}

\* Queries: none, blank, in either case, with a blank around it, digits
SearchQueries ==
  {<<>>, <<32>>, ToLowerCase(TextFm), TextFM, <<32>> \o TextFm, Text12, ToLowerCase(TextH)}

SortColumns == {"title", "artist", "album", "duration", "bpm", "key"}

(***************************************************************************)
(* Long chains: more pages than the cap on the pages of one walk            *)
(***************************************************************************)
\* The last page of this file, whose pages 0..CapPages are all inside it
CapPages == MAX_VISITED_PAGES + 3

MaxCapRun == 13

\* One track table; page p < chainLength names p + 1 as next_page, the page
\* chainLength names none; every page is a data page of the table without rows
CapImage(chainLength, lastPage) ==
  Overlay(<<Put32(4, MIN_PAGE_LEN), Put32(8, 1), Put32(HEADER_SIZE, PAGE_TYPE_TRACKS),
            Put32(HEADER_SIZE + 8, 1), Put32(HEADER_SIZE + 12, lastPage)>>)
  @@ [o \in {p * MIN_PAGE_LEN + 12 + b : p \in 1..(chainLength - 1), b \in 0..1} |->
        IF o % MIN_PAGE_LEN = 12 THEN ((o \div MIN_PAGE_LEN) + 1) % 256
        ELSE ((o \div MIN_PAGE_LEN) + 1) \div 256]

(***************************************************************************)
(* useRekordbox: loading a library.  An async function of the hook runs to *)
(* its next await in one step; what it holds there is a record in tasks,   *)
(* and the awaited operation settling is the next step of that call.  The  *)
(* handlers are called from the controls the screens render for the        *)
(* current status.                                                         *)
(***************************************************************************)
NoHandle == 0

\* At most this many calls are suspended at once
MaxTasks == 2

\* At most this many files come from one file input
MaxFiles == 2

\* The directories of the selected device: usb/{a/{c}, b}
RootDir == 1

DirParent == <<NoHandle, 1, 1, 2>>

DirName == <<"usb", "a", "b", "c">>

Dirs == 1..Len(DirName)

\* The library export.pdb holds and the one exportExt.pdb holds
PrimaryLibrary ==
  [tracks |-> <<LibraryTrack(1, TextA, 180, 0, <<>>), LibraryTrack(2, TextA, 180, 12800, TextH)>>,
   playlists |-> BasePlaylists]

CompanionLibrary ==
  [tracks |-> <<LibraryTrack(1, TextB, 200, 12000, TextT)>>, playlists |-> <<>>]

\* The browser and the device: whether window has showDirectoryPicker, how the
\* picker settles, whether the viewport is at most 767px wide, whether the root
\* has a PIONEER folder, where an export.pdb lies, whether it parses, and how
\* locating, reading and parsing exportExt.pdb ends
Disks ==
  {d \in [api : BOOLEAN, picker : {"ok", "abort", "error"}, small : BOOLEAN, pioneer : BOOLEAN,
          exportAt : {"standard", "elsewhere", "none"}, parses : BOOLEAN,
          ext : {"absent", "unreadable", "ok"}] :
     /\ d.exportAt = "standard" => d.pioneer
     /\ ~d.api => d.picker = "ok" /\ d.pioneer /\ d.exportAt = "standard"}

StandardDisk ==
  [api |-> TRUE, picker |-> "ok", small |-> FALSE, pioneer |-> TRUE, exportAt |-> "standard",
   parses |-> TRUE, ext |-> "ok"]

NoLoad == [kind |-> "none", primaryParsed |-> FALSE, ext |-> "none"]

NoHistory == [afterReset |-> FALSE, lastLoad |-> NoLoad]

\* A call suspended at an await: the function, the await, and the locals it holds
Task(kind, at, db, merge, dir, path) ==
  [kind |-> kind, at |-> at, db |-> db, merge |-> merge, dir |-> dir, path |-> path]

LoadTask(kind, at, merge) == Task(kind, at, NoLibrary, merge, NoHandle, <<>>)

RemoveAt(seq, i) == [k \in 1..(Len(seq) - 1) |-> IF k < i THEN seq[k] ELSE seq[k + 1]]

Awaiting(i, kinds, at) ==
  /\ i \in 1..Len(tasks)
  /\ tasks[i].kind \in kinds
  /\ tasks[i].at = at

LoadKinds == {"selectFolder", "handleFileInput", "performFullScan"}

\* findRekordboxDatabase: found, a partial match, or nothing
findRekordboxDatabase(d) ==
  IF d.exportAt = "standard" THEN "found"
  ELSE IF d.pioneer THEN "partialMatch"
  ELSE "none"

\* fullScanForDatabase: found when a file named export.pdb lies below the root
fullScanForDatabase(d) == d.exportAt # "none"

\* LandingScreen: the handlers its controls call, by status; without the picker
\* the control is the file input, given as onSelectFile
LandingOffers(st, d) ==
  IF st.type = "idle" THEN (IF d.api THEN {"selectFolder"} ELSE {"handleFileInput"})
  ELSE IF st.type = "partial" THEN {"performFullScan", "reset"}
  ELSE IF st.type = "invalid" THEN {"reset"}
  ELSE IF st.type = "error" THEN (IF d.api THEN {"reset"} ELSE {"handleFileInput"})
  ELSE {}

\* Index: the landing screen unless status is valid, then the library view
Offers(st, d) ==
  IF st.type = "valid"
  THEN {"reset", "loadFileEntries", "navigateToDirectory", "navigateUp"}
  ELSE LandingOffers(st, d)

\* setStatus, and the render that follows
SetStatus(st) ==
  /\ status' = st
  /\ filteredTracks' = getFilteredTracks(st, selectedPlaylist, searchQuery, sortColumn,
                                         sortDirection)

\* The end of a load: its status is set and the call is gone
LoadEnds(i, st, parsed, ext) ==
  /\ SetStatus(st)
  /\ tasks' = RemoveAt(tasks, i)
  /\ hist' = [hist EXCEPT !.lastLoad = [kind |-> tasks[i].kind, primaryParsed |-> parsed,
                                        ext |-> ext]]

\* The status after the folder picker rejected with AbortError
StaysLoading == [type |-> "loading"]

AbortStatus == [type |-> "idle"]

hookRest == <<decodeVars, baseDb, extDb, mergedDb, merges, firstMerged, sortColumn, sortDirection>>

queryVars == <<selectedPlaylist, searchQuery>>

\* selectFolder up to `await window.showDirectoryPicker`
selectFolder ==
  /\ "selectFolder" \in Offers(status, disk)
  /\ Len(tasks) < MaxTasks
  /\ SetStatus([type |-> "loading"])
  /\ tasks' = Append(tasks, LoadTask("selectFolder", "picker", FALSE))
  /\ hist' = [afterReset |-> FALSE, lastLoad |-> NoLoad]
  /\ UNCHANGED <<hookRest, queryVars, browseVars, disk>>

\* selectFolder: the picker settled
PickerDone(i) ==
  /\ Awaiting(i, {"selectFolder"}, "picker")
  /\ IF disk.picker = "ok"
     THEN /\ rootHandle' = RootDir
          /\ currentDirectory' = RootDir
          /\ directoryPath' = <<DirName[RootDir]>>
          /\ tasks' = [tasks EXCEPT ![i].at = "find"]
          /\ UNCHANGED <<status, filteredTracks, fileEntries, hist>>
     ELSE /\ LoadEnds(i, IF disk.picker = "abort" THEN AbortStatus ELSE [type |-> "error"],
                      FALSE, "none")
          /\ UNCHANGED browseVars
  /\ UNCHANGED <<hookRest, queryVars, disk>>

\* selectFolder: findRekordboxDatabase settled
FindDone(i) ==
  /\ Awaiting(i, {"selectFolder"}, "find")
  /\ IF findRekordboxDatabase(disk) = "found"
     THEN /\ tasks' = [tasks EXCEPT ![i].at = "parse"]
          /\ UNCHANGED <<status, filteredTracks, hist>>
     ELSE LoadEnds(i, IF findRekordboxDatabase(disk) = "partialMatch" THEN [type |-> "partial"]
                      ELSE [type |-> "invalid"], FALSE, "none")
  /\ UNCHANGED <<hookRest, queryVars, browseVars, disk>>

\* Whether the call goes on to the companion file after the primary one parsed
ReadsCompanion(task, d) ==
  IF task.kind = "selectFolder" THEN ~d.small
  ELSE IF task.kind = "handleFileInput" THEN ~d.small /\ task.merge
  ELSE FALSE

\* The three loaders: the parse of the primary file settled
ParseDone(i) ==
  /\ Awaiting(i, LoadKinds, "parse")
  /\ IF ~disk.parses THEN LoadEnds(i, [type |-> "error"], FALSE, "none")
     ELSE IF ReadsCompanion(tasks[i], disk)
     THEN /\ tasks' = [tasks EXCEPT ![i].at = "ext", ![i].db = PrimaryLibrary]
          /\ UNCHANGED <<status, filteredTracks, hist>>
     ELSE LoadEnds(i, [type |-> "valid", database |-> PrimaryLibrary], TRUE, "none")
  /\ UNCHANGED <<hookRest, queryVars, browseVars, disk>>

\* The status after the companion file could not be located, read or parsed
CompanionFailed(task) ==
  IF task.kind = "selectFolder" THEN [type |-> "valid", database |-> task.db]
  ELSE [type |-> "error"]

\* selectFolder and handleFileInput: the work on the companion file settled
ExtDone(i) ==
  /\ Awaiting(i, {"selectFolder", "handleFileInput"}, "ext")
  /\ IF disk.ext = "ok"
     THEN LoadEnds(i, [type |-> "valid", database |-> MergeDb(tasks[i].db, CompanionLibrary)],
                   TRUE, "ok")
     ELSE LoadEnds(i, CompanionFailed(tasks[i]), TRUE, "failed")
  /\ UNCHANGED <<hookRest, queryVars, browseVars, disk>>

\* The names of the files a file input can hand over
FileNames == {"export.pdb", "exportExt.pdb", "library.pdb", "notes.txt"}

IsPdb(name) == name # "notes.txt"

IsExport(name) == name = "export.pdb"

IsExportExt(name) == name = "exportExt.pdb"

RECURSIVE FindFile(_, _, _)
\* Array.prototype.find: the first file from k on that test accepts, or "none"
FindFile(files, Test(_), k) ==
  IF k > Len(files) THEN "none"
  ELSE IF Test(files[k]) THEN files[k]
  ELSE FindFile(files, Test, k + 1)

exportFile(files) == FindFile(files, LAMBDA n : IsPdb(n) /\ IsExport(n), 1)

exportExtFile(files) == FindFile(files, LAMBDA n : IsPdb(n) /\ IsExportExt(n), 1)

primaryFile(files) ==
  IF exportFile(files) # "none" THEN exportFile(files)
  ELSE IF exportExtFile(files) # "none" THEN exportExtFile(files)
  ELSE IF FindFile(files, IsPdb, 1) # "none" THEN FindFile(files, IsPdb, 1)
  ELSE IF Len(files) = 1 THEN files[1]
  ELSE "none"

\* handleFileInput up to `await parseRekordboxDatabaseFromFile(primaryFile)`
handleFileInput(files) ==
  /\ "handleFileInput" \in Offers(status, disk)
  /\ Len(tasks) < MaxTasks
  /\ Len(files) > 0
  /\ IF primaryFile(files) = "none"
     THEN /\ SetStatus([type |-> "error"])
          /\ UNCHANGED tasks
     ELSE /\ SetStatus([type |-> "loading"])
          /\ tasks' = Append(tasks, LoadTask("handleFileInput", "parse",
                                              exportFile(files) # "none"
                                                /\ exportExtFile(files) # "none"))
  /\ hist' = [afterReset |-> FALSE, lastLoad |-> NoLoad]
  /\ UNCHANGED <<hookRest, queryVars, browseVars, disk>>

\* performFullScan up to `await fullScanForDatabase(rootHandle)`
performFullScan ==
  /\ "performFullScan" \in Offers(status, disk)
  /\ Len(tasks) < MaxTasks
  /\ rootHandle # NoHandle
  /\ SetStatus([type |-> "loading"])
  /\ tasks' = Append(tasks, LoadTask("performFullScan", "scan", FALSE))
  /\ hist' = [afterReset |-> FALSE, lastLoad |-> NoLoad]
  /\ UNCHANGED <<hookRest, queryVars, browseVars, disk>>

\* performFullScan: fullScanForDatabase settled
ScanDone(i) ==
  /\ Awaiting(i, {"performFullScan"}, "scan")
  /\ IF fullScanForDatabase(disk)
     THEN /\ tasks' = [tasks EXCEPT ![i].at = "parse"]
          /\ UNCHANGED <<status, filteredTracks, hist>>
     ELSE LoadEnds(i, [type |-> "invalid"], FALSE, "none")
  /\ UNCHANGED <<hookRest, queryVars, browseVars, disk>>

\* reset, and the render that follows; the calls in flight go on
reset ==
  /\ "reset" \in Offers(status, disk)
  /\ status' = [type |-> "idle"]
  /\ rootHandle' = NoHandle
  /\ currentDirectory' = NoHandle
  /\ directoryPath' = <<>>
  /\ fileEntries' = <<>>
  /\ selectedPlaylist' = NoPlaylist
  /\ searchQuery' = <<>>
  /\ filteredTracks' = getFilteredTracks([type |-> "idle"], NoPlaylist, <<>>, sortColumn,
                                         sortDirection)
  /\ hist' = [afterReset |-> TRUE, lastLoad |-> NoLoad]
  /\ UNCHANGED <<hookRest, tasks, disk>>

(***************************************************************************)
(* useRekordbox: the file browser of the library view                      *)
(***************************************************************************)
\* listDirectory: the directories of d, by name
listDirectory(d) == SelectSeq([c \in Dirs |-> c], LAMBDA c : DirParent[c] = d)

\* handle.getDirectoryHandle(name): the directory of that name in d, or NoHandle
\* when it rejects
getDirectoryHandle(d, name) ==
  IF \E c \in Dirs : DirParent[c] = d /\ DirName[c] = name
  THEN CHOOSE c \in Dirs : DirParent[c] = d /\ DirName[c] = name
  ELSE NoHandle

RECURSIVE Descend(_, _)
\* navigateUp: the handle reached from handle by the names, in order
Descend(handle, names) ==
  IF names = <<>> \/ handle = NoHandle THEN handle
  ELSE Descend(getDirectoryHandle(handle, Head(names)), Tail(names))

Front(seq) == SubSeq(seq, 1, Len(seq) - 1)

BrowseTask(kind, dir, path) == Task(kind, "list", NoLibrary, FALSE, dir, path)

\* loadFileEntries up to `await listDirectory(currentDirectory)`, called by the
\* library view when it shows the files and has none
loadFileEntries ==
  /\ "loadFileEntries" \in Offers(status, disk)
  /\ fileEntries = <<>>
  /\ currentDirectory # NoHandle
  /\ Len(tasks) < MaxTasks
  /\ tasks' = Append(tasks, BrowseTask("loadFileEntries", currentDirectory, <<>>))
  /\ UNCHANGED <<hookRest, viewVars, browseVars, disk, hist>>

\* loadFileEntries: the listing settled
ListDone(i) ==
  /\ Awaiting(i, {"loadFileEntries"}, "list")
  /\ fileEntries' = listDirectory(tasks[i].dir)
  /\ tasks' = RemoveAt(tasks, i)
  /\ UNCHANGED <<hookRest, viewVars, rootHandle, currentDirectory, directoryPath, disk, hist>>

\* navigateToDirectory up to `await listDirectory(dirHandle)`, called from the
\* row of a directory in the listing shown
navigateToDirectory(k) ==
  /\ "navigateToDirectory" \in Offers(status, disk)
  /\ k \in 1..Len(fileEntries)
  /\ Len(tasks) < MaxTasks
  /\ tasks' = Append(tasks, BrowseTask("navigateToDirectory", fileEntries[k],
                                       <<DirName[fileEntries[k]]>>))
  /\ UNCHANGED <<hookRest, viewVars, browseVars, disk, hist>>

\* navigateToDirectory: the listing settled
NavigateDone(i) ==
  /\ Awaiting(i, {"navigateToDirectory"}, "list")
  /\ currentDirectory' = tasks[i].dir
  /\ directoryPath' = directoryPath \o tasks[i].path
  /\ fileEntries' = listDirectory(tasks[i].dir)
  /\ tasks' = RemoveAt(tasks, i)
  /\ UNCHANGED <<hookRest, viewVars, rootHandle, disk, hist>>

\* navigateUp up to its first await, called from the up button
navigateUp ==
  /\ "navigateUp" \in Offers(status, disk)
  /\ rootHandle # NoHandle
  /\ Len(directoryPath) > 1
  /\ Len(tasks) < MaxTasks
  /\ tasks' = Append(tasks, BrowseTask("navigateUp", rootHandle, Front(directoryPath)))
  /\ UNCHANGED <<hookRest, viewVars, browseVars, disk, hist>>

\* navigateUp: the handles and the listing settled, or a name was not found
UpDone(i) ==
  /\ Awaiting(i, {"navigateUp"}, "list")
  /\ IF Descend(tasks[i].dir, Tail(tasks[i].path)) = NoHandle
     THEN UNCHANGED <<currentDirectory, directoryPath, fileEntries>>
     ELSE /\ currentDirectory' = Descend(tasks[i].dir, Tail(tasks[i].path))
          /\ directoryPath' = tasks[i].path
          /\ fileEntries' = listDirectory(Descend(tasks[i].dir, Tail(tasks[i].path)))
  /\ tasks' = RemoveAt(tasks, i)
  /\ UNCHANGED <<hookRest, viewVars, rootHandle, disk, hist>>

(***************************************************************************)
(* Specifications                                                          *)
(***************************************************************************)
\* No library loaded yet
IdleView ==
  /\ status = [type |-> "idle"]
  /\ selectedPlaylist = NoPlaylist
  /\ searchQuery = <<>>
  /\ sortColumn = "title"
  /\ sortDirection = "asc"
  /\ filteredTracks = <<>>

\* No folder selected, nothing in flight
IdleLoad ==
  /\ rootHandle = NoHandle
  /\ currentDirectory = NoHandle
  /\ directoryPath = <<>>
  /\ fileEntries = <<>>
  /\ tasks = <<>>
  /\ disk = StandardDisk
  /\ hist = NoHistory

IdleHook ==
  /\ IdleView
  /\ IdleLoad
  /\ baseDb = NoLibrary
  /\ extDb = NoLibrary
  /\ mergedDb = NoLibrary
  /\ merges = 0
  /\ firstMerged = NoLibrary

\* No decode started yet
IdleDecoder ==
  /\ now = 0
  /\ pc = "start"
  /\ error = "none"
  /\ lenPage = 0
  /\ tables = <<>>
  /\ pass = 1
  /\ tableIdx = 0
  /\ walking = FALSE
  /\ pageIndex = 0
  /\ visitedPages = {}
  /\ artists = <<>> /\ albums = <<>> /\ genres = <<>> /\ keys = <<>> /\ labels = <<>>
  /\ playlistTree = <<>>
  /\ playlistEntries = <<>>
  /\ trackData = <<>>
  /\ playlistMap = <<>>
  /\ library = NoLibrary
  /\ requests = {}
  /\ rowLog = <<>>
  /\ decodes = 1
  /\ firstLibrary = NoLibrary

InitOf(families) ==
  /\ \E family \in families : \E d \in FilesOf(family) :
       /\ fileSize = d.size
       /\ fileBytes = Clip(Image(d), d.size)
  /\ IdleDecoder
  /\ IdleHook

\* One decode of one image
Decode == Open \/ BeginWalk \/ VisitPage \/ NextPass \/ Assemble

Init == InitOf(AllFamilies)
Next == Decode
Spec == Init /\ [][Next]_vars

\* The page walk alone, run to completion
WalkInit == InitOf(WalkFamilies)
WalkSpec == WalkInit /\ [][Next]_vars /\ WF_vars(Next)

\* Repeated decodes of one image while time passes
ClockInit == InitOf(TrackFamilies)
ClockNext == Decode \/ Redecode \/ Tick
ClockSpec == ClockInit /\ [][ClockNext]_vars

\* The walk of the track table of a long chain, from the iteration on page
\* visited + 1, the pages 1..visited being processed
CapInit ==
  /\ \E chainLength \in MAX_VISITED_PAGES..CapPages :
     \E lastPage \in {0, MAX_VISITED_PAGES, MAX_VISITED_PAGES + 1} :
     \E visited \in (MAX_VISITED_PAGES - MaxCapRun)..(MAX_VISITED_PAGES - 1) :
       /\ fileSize = (CapPages + 1) * MIN_PAGE_LEN
       /\ fileBytes = CapImage(chainLength, lastPage)
       /\ tables = <<[type |-> PAGE_TYPE_TRACKS, firstPage |-> 1, lastPage |-> lastPage]>>
       /\ pageIndex = visited + 1
       /\ visitedPages = 1..visited
  /\ now = 0
  /\ pc = "walk"
  /\ error = "none"
  /\ lenPage = MIN_PAGE_LEN
  /\ pass = 4
  /\ tableIdx = 1
  /\ walking = TRUE
  /\ artists = <<>> /\ albums = <<>> /\ genres = <<>> /\ keys = <<>> /\ labels = <<>>
  /\ playlistTree = <<>>
  /\ playlistEntries = <<>>
  /\ trackData = <<>>
  /\ playlistMap = <<>>
  /\ library = NoLibrary
  /\ requests = {}
  /\ rowLog = <<>>
  /\ decodes = 1
  /\ firstLibrary = NoLibrary
  /\ IdleHook
CapNext == VisitPage \/ Assemble
CapSpec == CapInit /\ [][CapNext]_vars

\* The merge of a companion library, or of the base library itself, into a base
\* library
MergeInit ==
  /\ fileSize = 0
  /\ fileBytes = NoBytes
  /\ IdleDecoder
  /\ \E a \in BaseLibraries : \E b \in ExtLibraries \cup {a} :
       /\ baseDb = a
       /\ extDb = b
  /\ mergedDb = NoLibrary
  /\ merges = 0
  /\ firstMerged = NoLibrary
  /\ IdleView
  /\ IdleLoad
MergeNext == MergeExt \/ MergeMerged
MergeSpec == MergeInit /\ [][MergeNext]_vars

\* The library view after a library was loaded: nothing selected, no query
SearchInit ==
  /\ fileSize = 0
  /\ fileBytes = NoBytes
  /\ IdleDecoder
  /\ \E db \in SearchLibraries :
       /\ baseDb = db
       /\ mergedDb = db
       /\ status = [type |-> "valid", database |-> db]
       /\ filteredTracks = getFilteredTracks([type |-> "valid", database |-> db], NoPlaylist, <<>>,
                                             "title", "asc")
  /\ extDb = NoLibrary
  /\ merges = 0
  /\ firstMerged = NoLibrary
  /\ selectedPlaylist = NoPlaylist
  /\ searchQuery = <<>>
  /\ sortColumn = "title"
  /\ sortDirection = "asc"
  /\ IdleLoad
SearchNext ==
  \/ \E query \in SearchQueries : SetSearchQuery(query)
  \/ \E playlist \in Selectable : SetSelectedPlaylist(playlist)
  \/ handleSortSame
  \/ \E column \in SortColumns : handleSortOther(column)
SearchSpec == SearchInit /\ [][SearchNext]_vars

\* The landing screen on any browser and device, nothing selected yet
LoadInit ==
  /\ fileSize = 0
  /\ fileBytes = NoBytes
  /\ IdleDecoder
  /\ IdleView
  /\ baseDb = NoLibrary
  /\ extDb = NoLibrary
  /\ mergedDb = NoLibrary
  /\ merges = 0
  /\ firstMerged = NoLibrary
  /\ rootHandle = NoHandle
  /\ currentDirectory = NoHandle
  /\ directoryPath = <<>>
  /\ fileEntries = <<>>
  /\ tasks = <<>>
  /\ disk \in Disks
  /\ hist = NoHistory

\* The lists of files a file input hands over
FileLists == UNION {SeqsOf(FileNames, n) : n \in 0..MaxFiles}

LoadStep ==
  \E i \in 1..MaxTasks : PickerDone(i) \/ FindDone(i) \/ ParseDone(i) \/ ExtDone(i) \/ ScanDone(i)

LoadNext ==
  \/ selectFolder
  \/ \E files \in FileLists : handleFileInput(files)
  \/ performFullScan
  \/ reset
  \/ LoadStep

LoadSpec == LoadInit /\ [][LoadNext]_vars

\* Every awaited operation settles: a call suspended at an await goes on
LoadLive == LoadInit /\ [][LoadNext]_vars /\ WF_vars(LoadStep)

\* The landing screen with a device of the standard layout
BrowseInit ==
  /\ LoadInit
  /\ disk = StandardDisk

BrowseStep ==
  \E i \in 1..MaxTasks :
    \/ PickerDone(i)
    \/ FindDone(i)
    \/ ParseDone(i)
    \/ ExtDone(i)
    \/ ListDone(i)
    \/ NavigateDone(i)
    \/ UpDone(i)

BrowseNext ==
  \/ selectFolder
  \/ reset
  \/ loadFileEntries
  \/ \E k \in Dirs : navigateToDirectory(k)
  \/ navigateUp
  \/ BrowseStep

BrowseSpec == BrowseInit /\ [][BrowseNext]_vars



(***************************************************************************)
(* Properties                                                              *)
(***************************************************************************)
\* The rows handed to the row callback of pass p, in decode order
LoggedRows(p) == SelectSeq(rowLog, LAMBDA e : e.pass = p)

KeptRows(p) == SelectSeq(rowLog, LAMBDA e : e.pass = p /\ e.outcome = "kept")

Max(S) == CHOOSE x \in S : \A y \in S : y <= x

FatalHeader ==
  \/ fileSize > 500 * 1024 * 1024
  \/ fileSize < 28
  \/ getUint32(8) > 1000
  \/ getUint32(4) < 512
  \/ getUint32(4) > 1024 * 1024

\* C2: the decode fails, with no library, exactly on a file over 500 MiB or under
\* 28 bytes, on num_tables > 1000 or on page_len outside [512, 1 MiB]; on every
\* other buffer no error escapes
FailsExactlyOnFatalHeader ==
  /\ pc = "failed" => FatalHeader /\ library = NoLibrary
  /\ pc \in {"walk", "done"} => ~FatalHeader
  /\ pc = "done" => error = "none"

\* A decode that returned although a row callback raised a RangeError
RowErrorSwallowed ==
  pc = "done" /\ \E i \in 1..Len(rowLog) : rowLog[i].outcome = "threw"

\* C3: every table walk returns whatever the next_page values are, and so the
\* decode returns
WalksTerminate == <>(pc \in {"done", "failed"})

\* A walk over two pages or more that ended on a page it had visited, none of
\* the breaks on next_page or last_page applying
WalkStoppedByCycle ==
  /\ pc = "walk" /\ ~walking /\ tableIdx > 0
  /\ Cardinality(visitedPages) >= 2
  /\ pageIndex \in visitedPages
  /\ ~PageOutsideBuffer(pageIndex * lenPage)
  /\ ~WalkBreaks(getUint32(pageIndex * lenPage + 12), pageIndex,
                 tables[tableIdx].lastPage, visitedPages)

\* C4: a second decode of the same buffer, at whatever time, returns a library
\* equal to the first in every field, date_added included
DecodesAgree == (pc = "done" /\ decodes > 1) => library = firstLibrary

KeptNodeIds == {playlistTree[i].id : i \in 1..Len(playlistTree)}

RootIds == {library.playlists[i].id : i \in 1..Len(library.playlists)}

\* C5: a kept playlist node whose parent_id is 0 or names no kept node is among
\* the root playlists of the library
OrphansBecomeRoots ==
  pc = "done" =>
    \A i \in 1..Len(playlistTree) :
      (playlistTree[i].parentId = 0 \/ playlistTree[i].parentId \notin KeptNodeIds)
        => playlistTree[i].id \in RootIds

Occurrences(seq, x) == Cardinality({i \in 1..Len(seq) : seq[i] = x})

\* C6: a kept node whose parent_id names a kept node N is once in the children
\* of N and in the children of no other node
EachChildOnce ==
  pc = "done" =>
    \A i \in 1..Len(playlistMap) : \A j \in 1..Len(playlistMap) :
      (playlistMap[i].parentId # NULL /\ playlistMap[i].parentId \in KeptNodeIds)
        => Occurrences(playlistMap[j].children, playlistMap[i].id)
             = IF playlistMap[j].id = playlistMap[i].parentId THEN 1 ELSE 0

\* A node with two children, one of them decoded from two tree rows
ChildWithTwoRows ==
  /\ pc = "done"
  /\ \E j \in 1..Len(playlistMap) : Len(playlistMap[j].children) = 2
  /\ \E a \in 1..Len(KeptRows(2)) : \E b \in 1..Len(KeptRows(2)) :
       /\ a # b
       /\ getUint32(KeptRows(2)[a].rowBase + 12) = getUint32(KeptRows(2)[b].rowBase + 12)
       /\ getUint32(KeptRows(2)[a].rowBase) # 0
       /\ getUint32(KeptRows(2)[a].rowBase) = getUint32(KeptRows(2)[b].rowBase)

\* The fields of the playlist entry row at rowBase
EntryAt(rowBase) ==
  [position |-> getUint32(rowBase), trackId |-> getUint32(rowBase + 4),
   playlistId |-> getUint32(rowBase + 8)]

\* The entries with playlist_id = id > 0 and track_id > 0, in decode order
EntriesDecodedFor(id) ==
  SelectSeq([i \in 1..Len(LoggedRows(3)) |-> EntryAt(LoggedRows(3)[i].rowBase)],
            LAMBDA e : e.playlistId = id /\ id > 0 /\ e.trackId > 0)

\* trackIds lists the entries es, each once, by ascending position
ListsByPosition(trackIds, es) ==
  /\ Len(trackIds) = Len(es)
  /\ \/ es = <<>>
     \/ \E order \in Permutations(1..Len(es)) :
          /\ \A i \in 1..Len(es) : trackIds[i] = es[order[i]].trackId
          /\ \A i \in 1..Len(es) : \A j \in i..Len(es) :
               es[order[i]].position <= es[order[j]].position

\* C7: the track_ids of a playlist are the track ids of exactly the kept entries
\* of that playlist by ascending position, whatever their decode order and
\* whether or not a track with that id was decoded
TrackIdsByPosition ==
  pc = "done" =>
    \A i \in 1..Len(playlistMap) :
      ListsByPosition(playlistMap[i].trackIds, EntriesDecodedFor(playlistMap[i].id))

\* A playlist of three entries decoded out of position order, one of a track
\* that was never decoded
EntriesOutOfOrder ==
  /\ pc = "done"
  /\ \E i \in 1..Len(playlistMap) :
       /\ Len(playlistMap[i].trackIds) = 3
       /\ playlistMap[i].trackIds
            # [k \in 1..3 |-> EntriesDecodedFor(playlistMap[i].id)[k].trackId]
       /\ \E k \in 1..3 : ~HasId(trackData, playlistMap[i].trackIds[k])

\* The kept tree rows in decode order, with the id and sort_order they carry
TreeRowsKept ==
  [i \in 1..Len(KeptRows(2)) |->
     [id |-> getUint32(KeptRows(2)[i].rowBase + 12),
      sortOrder |-> getUint32(KeptRows(2)[i].rowBase + 8)]]

FirstRowOf(id) == Min({i \in 1..Len(TreeRowsKept) : TreeRowsKept[i].id = id})

LastRowOf(id) == Max({i \in 1..Len(TreeRowsKept) : TreeRowsKept[i].id = id})

RootsBySortOrder ==
  \A i \in 1..Len(library.playlists) : \A j \in i..Len(library.playlists) :
    TreeRowsKept[LastRowOf(library.playlists[i].id)].sortOrder
      <= TreeRowsKept[LastRowOf(library.playlists[j].id)].sortOrder

\* C8 as stated: roots by non-decreasing sort_order, the children of a node in
\* the order in which the tree rows that made them its children were decoded
ChildrenInRowOrder ==
  pc = "done" =>
    /\ RootsBySortOrder
    /\ \A n \in 1..Len(playlistMap) :
         \A i \in 1..Len(playlistMap[n].children) : \A j \in (i + 1)..Len(playlistMap[n].children) :
           LastRowOf(playlistMap[n].children[i]) < LastRowOf(playlistMap[n].children[j])

\* C8 amended: roots by non-decreasing sort_order, the children of a node in the
\* order in which their ids were first decoded from a kept tree row
ChildrenInFirstRowOrder ==
  pc = "done" =>
    /\ RootsBySortOrder
    /\ \A n \in 1..Len(playlistMap) :
         \A i \in 1..Len(playlistMap[n].children) : \A j \in (i + 1)..Len(playlistMap[n].children) :
           FirstRowOf(playlistMap[n].children[i]) < FirstRowOf(playlistMap[n].children[j])

\* A node with two children, the first of them given its fields by a tree row
\* decoded after the row of the second
ChildReplacedByLaterRow ==
  /\ pc = "done"
  /\ \E n \in 1..Len(playlistMap) :
       /\ Len(playlistMap[n].children) = 2
       /\ LastRowOf(playlistMap[n].children[1]) > LastRowOf(playlistMap[n].children[2])

\* The ids of the playlists of a forest, roots and descendants
RECURSIVE PlaylistIds(_)
PlaylistIds(playlists) ==
  IF playlists = <<>> THEN {}
  ELSE {Head(playlists).id} \cup PlaylistIds(Head(playlists).children)
       \cup PlaylistIds(Tail(playlists))

\* C9: no track and no playlist of the library, root or descendant, has id 0
NoZeroIds ==
  pc = "done" =>
    /\ \A i \in 1..Len(library.tracks) : library.tracks[i].id # 0
    /\ 0 \notin PlaylistIds(library.playlists)

\* A library with a playlist, decoded from a page with a named tree row of id 0
ZeroIdRowDecoded ==
  /\ pc = "done"
  /\ library.playlists # <<>>
  /\ \E i \in 1..Len(LoggedRows(2)) :
       /\ getUint32(LoggedRows(2)[i].rowBase + 12) = 0
       /\ ReadString(LoggedRows(2)[i].rowBase + 20).text # <<>>

\* The gated fields of the track row at rowBase
PassesGatesAt(rowBase) ==
  /\ getUint32(rowBase + 72) > 0
  /\ getUint32(rowBase + 56) <= 50000
  /\ getUint16(rowBase + 84) <= 36000
  /\ getUint32(rowBase + 48) <= 10000

\* C10: a track row of the minimum length is dropped when id = 0, tempo > 50000,
\* duration > 36000 or bitrate > 10000 and kept otherwise, the boundary values
\* included; every track of the library is within the gates
GatesDecide ==
  /\ \A i \in 1..Len(LoggedRows(4)) :
       LoggedRows(4)[i].rowBase + 134 <= bufferLength =>
         (LoggedRows(4)[i].outcome = "kept" <=> PassesGatesAt(LoggedRows(4)[i].rowBase))
  /\ \A i \in 1..Len(library.tracks) :
       /\ library.tracks[i].id > 0
       /\ library.tracks[i].bpm.whole * 100 + library.tracks[i].bpm.hundredths <= 50000
       /\ library.tracks[i].duration <= 36000
       /\ library.tracks[i].bitrate <= 10000

\* The kept track rows that carry id, as indices of KeptRows(4) in decode order
TrackRowsOf(id) ==
  {i \in 1..Len(KeptRows(4)) : getUint32(KeptRows(4)[i].rowBase + 72) = id}

\* The track t has the field values of the track row at rowBase
HasFieldsOfRow(t, rowBase) ==
  /\ t.bpm = Bpm(getUint32(rowBase + 56))
  /\ t.duration = getUint16(rowBase + 84)
  /\ t.rating = getUint8(rowBase + 89)
  /\ t.bitrate = getUint32(rowBase + 48)
  /\ t.title = IF NonEmpty(SlotString(rowBase, 17).text)
                 THEN SlotString(rowBase, 17).text ELSE UnknownTitle
  /\ t.filePath = SlotString(rowBase, 20).text

\* C11: the track ids of the library are unique, and a track whose id is carried
\* by several rows that pass the gates has the field values of the last of them
LastTrackRowWins ==
  pc = "done" =>
    /\ \A i \in 1..Len(library.tracks) : \A j \in 1..Len(library.tracks) :
         library.tracks[i].id = library.tracks[j].id => i = j
    /\ \A i \in 1..Len(library.tracks) :
         /\ TrackRowsOf(library.tracks[i].id) # {}
         /\ HasFieldsOfRow(library.tracks[i],
                           KeptRows(4)[Max(TrackRowsOf(library.tracks[i].id))].rowBase)

\* A library from two kept track rows of one id that differ in tempo and title
TrackIdRepeated ==
  /\ pc = "done"
  /\ \E a \in 1..Len(KeptRows(4)) : \E b \in 1..Len(KeptRows(4)) :
       /\ a < b
       /\ getUint32(KeptRows(4)[a].rowBase + 72) = getUint32(KeptRows(4)[b].rowBase + 72)
       /\ getUint32(KeptRows(4)[a].rowBase + 56) # getUint32(KeptRows(4)[b].rowBase + 56)
       /\ SlotString(KeptRows(4)[a].rowBase, 17).text # SlotString(KeptRows(4)[b].rowBase, 17).text

\* The name kept for id in a lookup map, or the default of the field
NameFor(map, id, fallback) == IF id \in DOMAIN map THEN map[id] ELSE fallback

\* The kept rows of the lookup tables of one type, in decode order
LookupRowsKept(type) ==
  SelectSeq(KeptRows(1), LAMBDA e : tables[e.table].type = type)

\* The row that gave the track its fields: the last kept row of its id
RowOfTrack(t) == KeptRows(4)[Max(TrackRowsOf(t.id))].rowBase

\* C12: whatever the order of the table descriptors, the artist, album, genre
\* and key of a track are the names kept for its ids anywhere in the file, or
\* the defaults when an id has no kept lookup row
ForeignKeysResolved ==
  pc = "done" =>
    /\ \A i \in 1..Len(LookupRowsKept(PAGE_TYPE_ARTISTS)) :
         getUint32(LookupRowsKept(PAGE_TYPE_ARTISTS)[i].rowBase + 4) \in DOMAIN artists
    /\ \A i \in 1..Len(LookupRowsKept(PAGE_TYPE_ALBUMS)) :
         getUint32(LookupRowsKept(PAGE_TYPE_ALBUMS)[i].rowBase + 12) \in DOMAIN albums
    /\ \A i \in 1..Len(LookupRowsKept(PAGE_TYPE_GENRES)) :
         getUint32(LookupRowsKept(PAGE_TYPE_GENRES)[i].rowBase) \in DOMAIN genres
    /\ \A i \in 1..Len(LookupRowsKept(PAGE_TYPE_KEYS)) :
         getUint32(LookupRowsKept(PAGE_TYPE_KEYS)[i].rowBase) \in DOMAIN keys
    /\ \A i \in 1..Len(library.tracks) :
         /\ library.tracks[i].artist
              = NameFor(artists, getUint32(RowOfTrack(library.tracks[i]) + 68), UnknownArtist)
         /\ library.tracks[i].album
              = NameFor(albums, getUint32(RowOfTrack(library.tracks[i]) + 64), UnknownAlbum)
         /\ library.tracks[i].genre
              = NameFor(genres, getUint32(RowOfTrack(library.tracks[i]) + 60), <<>>)
         /\ library.tracks[i].key
              = NameFor(keys, getUint32(RowOfTrack(library.tracks[i]) + 32), <<>>)

\* A track whose table descriptor comes first in the header, with an artist
\* and a genre that were resolved and an album and a key that have no kept row
TrackTableBeforeLookups ==
  /\ pc = "done"
  /\ tables # <<>> /\ tables[1].type = PAGE_TYPE_TRACKS
  /\ \E i \in 1..Len(library.tracks) :
       /\ library.tracks[i].artist \notin {UnknownArtist, <<>>}
       /\ library.tracks[i].genre # <<>>
       /\ library.tracks[i].album = UnknownAlbum
       /\ library.tracks[i].key = <<>>

\* The track of the companion library with this id
Counterpart(id) == CHOOSE b \in {extDb.tracks[j] : j \in 1..Len(extDb.tracks)} : b.id = id

\* C13: the merged library has the playlists of A and exactly the tracks of A in
\* the order of A; a track with a counterpart in B by id takes the bpm of B only
\* if its own is not above 0 and the genre of B only if its own is empty, and
\* every other field from A; a track without a counterpart is unchanged
MergeKeepsPrimary ==
  merges = 1 =>
    /\ mergedDb.playlists = baseDb.playlists
    /\ Len(mergedDb.tracks) = Len(baseDb.tracks)
    /\ \A i \in 1..Len(baseDb.tracks) :
         IF \E j \in 1..Len(extDb.tracks) : extDb.tracks[j].id = baseDb.tracks[i].id
           THEN /\ mergedDb.tracks[i].bpm
                     = IF baseDb.tracks[i].bpm.whole * 100 + baseDb.tracks[i].bpm.hundredths <= 0
                         THEN Counterpart(baseDb.tracks[i].id).bpm
                         ELSE baseDb.tracks[i].bpm
                /\ mergedDb.tracks[i].genre
                     = IF baseDb.tracks[i].genre = <<>>
                         THEN Counterpart(baseDb.tracks[i].id).genre
                         ELSE baseDb.tracks[i].genre
                /\ [mergedDb.tracks[i] EXCEPT !.bpm = baseDb.tracks[i].bpm,
                                              !.genre = baseDb.tracks[i].genre]
                     = baseDb.tracks[i]
           ELSE mergedDb.tracks[i] = baseDb.tracks[i]

\* A merge of a track without bpm but with a genre, whose counterpart has both,
\* beside a track only in A and a track only in B
MergeFilledBpmOnly ==
  /\ merges = 1
  /\ \E i \in 1..Len(baseDb.tracks) : \E j \in 1..Len(extDb.tracks) :
       /\ baseDb.tracks[i].id = extDb.tracks[j].id
       /\ baseDb.tracks[i].bpm = Bpm(0) /\ baseDb.tracks[i].genre # <<>>
       /\ extDb.tracks[j].bpm # Bpm(0) /\ extDb.tracks[j].genre # <<>>
       /\ mergedDb.tracks[i].title # extDb.tracks[j].title
  /\ \E i \in 1..Len(baseDb.tracks) : \A j \in 1..Len(extDb.tracks) :
       baseDb.tracks[i].id # extDb.tracks[j].id
  /\ \E j \in 1..Len(extDb.tracks) : \A i \in 1..Len(baseDb.tracks) :
       baseDb.tracks[i].id # extDb.tracks[j].id

\* C14: a library merged with itself is that library, and a second merge with
\* the same companion library changes nothing
MergeIdempotent ==
  /\ (merges >= 1 /\ extDb = baseDb) => firstMerged = baseDb
  /\ merges = 2 => mergedDb = firstMerged

\* A second merge after a first merge that filled a bpm or a genre
MergedTwice == merges = 2 /\ firstMerged # baseDb

\* The header fields of the page the walk is at
NextPageAt(index) == getUint32(index * lenPage + 12)

NumRowOffsetsAt(index) == getUint32(index * lenPage + 24) % 8192

\* C15: a page that fails header validation (num_row_offsets > 2000) does not end
\* the walk: a walk that has ended on such a page has ended for its next_page,
\* for last_page or for the page cap, as it would have on a valid page
PageErrorsSkipped ==
  (/\ pc = "walk" /\ ~walking /\ tableIdx > 0
   /\ pageIndex \in visitedPages
   /\ ~PageOutsideBuffer(pageIndex * lenPage)
   /\ NumRowOffsetsAt(pageIndex) > 2000)
    => \/ WalkBreaks(NextPageAt(pageIndex), pageIndex, tables[tableIdx].lastPage, visitedPages)
       \/ NextPageAt(pageIndex) \in visitedPages

\* The row bases handed to the row decoder in the walk of table t of pass p
RowsLoggedFor(p, t) ==
  [i \in 1..Len(SelectSeq(rowLog, LAMBDA e : e.pass = p /\ e.table = t)) |->
     SelectSeq(rowLog, LAMBDA e : e.pass = p /\ e.table = t)[i].rowBase]

\* The live rows of page index when it is a data page of the type of the table
RowsOfPage(index, type) ==
  IF /\ getUint32(index * lenPage + 8) = type
     /\ (getUint8(index * lenPage + 27) \div 64) % 2 = 0
     /\ NumRowOffsetsAt(index) > 0 /\ NumRowOffsetsAt(index) <= 2000
    THEN LiveRows(index * lenPage, NumRowOffsetsAt(index))
    ELSE <<>>

\* C17: the walk never starts on a page it has processed, so a cycle ends the
\* walk at the first revisit; when next_page of the first page is that page,
\* the walk ends after this one page, each of its live rows decoded once
NoPageTwice ==
  /\ walking => pageIndex \notin visitedPages
  /\ (/\ pc = "walk" /\ ~walking /\ tableIdx > 0
      /\ tables[tableIdx].firstPage > 0
      /\ ~InitialPageInvalid(tables[tableIdx].firstPage)
      /\ ~PageOutsideBuffer(tables[tableIdx].firstPage * lenPage)
      /\ NextPageAt(tables[tableIdx].firstPage) = tables[tableIdx].firstPage)
       => /\ visitedPages = {tables[tableIdx].firstPage}
          /\ RowsLoggedFor(pass, tableIdx)
               = RowsOfPage(tables[tableIdx].firstPage, tables[tableIdx].type)

\* A decode that returned the track of a first page whose next_page is that
\* page, which is not last_page
FirstPageLoops ==
  /\ pc = "done"
  /\ Len(tables) = 1 /\ tables[1].firstPage > 0 /\ tables[1].firstPage # tables[1].lastPage
  /\ NextPageAt(tables[1].firstPage) = tables[1].firstPage
  /\ visitedPages = {tables[1].firstPage}
  /\ Len(library.tracks) = 1
  /\ Len(RowsLoggedFor(4, 1)) = 1

\* C16: one table walk processes at most 10 000 pages, however far the chain
\* goes on through distinct pages inside the file
WalkWithinPageCap == Cardinality(visitedPages) <= 10000

\* C18: a buffer that decodes has 512 <= page_len <= 1 MiB, num_tables <= 1000
\* and room for the table descriptors its header declares
DecodedHeaderValid ==
  pc = "done" =>
    /\ getUint32(4) >= 512 /\ getUint32(4) <= 1024 * 1024
    /\ getUint32(8) <= 1000
    /\ fileSize >= 28 + 16 * getUint32(8)

\* The ids of the children of playlist id, as linked in playlistMap
ChildIdsOf(id) == IF HasId(playlistMap, id) THEN NodeOf(playlistMap, id).children ELSE <<>>

\* The number of paths of at most depth links that lead from playlist from
\* down to playlist target
RECURSIVE PathCount(_, _, _)
PathCount(from, target, depth) ==
  (IF from = target THEN 1 ELSE 0)
  + (IF depth = 0 THEN 0
     ELSE SumOf([i \in 1..Len(ChildIdsOf(from)) |->
                   PathCount(ChildIdsOf(from)[i], target, depth - 1)]))

\* The number of paths from the roots of the library to playlist target
PathsFromRoots(target) ==
  SumOf([i \in 1..Len(library.playlists) |->
           PathCount(library.playlists[i].id, target, Len(playlistMap))])

\* C19: the playlists of the library are a forest whatever the tree rows: a
\* playlist is reached from the roots by one path at most, and a playlist that
\* is reached is not among its own descendants
PlaylistsAreForest ==
  pc = "done" =>
    \A n \in 1..Len(playlistMap) :
      /\ PathsFromRoots(playlistMap[n].id) <= 1
      /\ PathsFromRoots(playlistMap[n].id) = 1
           => PathCount(playlistMap[n].id, playlistMap[n].id, Len(playlistMap)) = 1

\* A library with a root that has a child, decoded from tree rows of which two
\* name each other as parent
ParentCycleDecoded ==
  /\ pc = "done"
  /\ \E i \in 1..Len(library.playlists) : library.playlists[i].children # <<>>
  /\ \E a \in 1..Len(playlistMap) : \E b \in 1..Len(playlistMap) :
       /\ a # b
       /\ playlistMap[a].parentId = playlistMap[b].id
       /\ playlistMap[b].parentId = playlistMap[a].id

\* The text of a number below 1000 with at most two decimals, as String() gives it
DigitsOf(n) ==
  IF n < 10 THEN <<48 + n>>
  ELSE IF n < 100 THEN <<48 + (n \div 10), 48 + (n % 10)>>
  ELSE <<48 + (n \div 100), 48 + ((n \div 10) % 10), 48 + (n % 10)>>

BpmText(bpm) ==
  DigitsOf(bpm.whole)
    \o (IF bpm.hundredths = 0 THEN <<>>
        ELSE IF bpm.hundredths % 10 = 0 THEN <<46, 48 + (bpm.hundredths \div 10)>>
        ELSE <<46, 48 + (bpm.hundredths \div 10), 48 + (bpm.hundredths % 10)>>)

\* Title, artist, album, genre, key or BPM holds the query, whatever the case
MatchesDeepSearch(t, query) ==
  \E field \in {t.title, t.artist, t.album, t.genre, t.key, BpmText(t.bpm)} :
    Includes(ToLowerCase(field), ToLowerCase(query))

\* C20: with a search query, the track list shown holds the tracks of the
\* current selection that match the query in title, artist, album, genre, key
\* or BPM, and no other track
SearchFindsEveryField ==
  (status.type = "valid" /\ Trim(searchQuery) # <<>>) =>
    \A i \in 1..Len(SelectionOf(status.database.tracks, selectedPlaylist)) :
      (\E j \in 1..Len(filteredTracks) :
         filteredTracks[j] = SelectionOf(status.database.tracks, selectedPlaylist)[i])
      <=> MatchesDeepSearch(SelectionOf(status.database.tracks, selectedPlaylist)[i],
                            searchQuery)

\* The two bytes at position lie in the heap of the page at pageOffset
InHeap(position, pageOffset) ==
  position >= pageOffset + 40 /\ position + 2 <= pageOffset + lenPage

\* C22: a row base handed to a row decoder lies in [page_offset + 40,
\* page_offset + page_len) of the page being walked, which lies wholly inside
\* the buffer, is a data page and has the type of the table walked; a presence
\* bitmap or a row offset whose position is outside that range is not read
RowsInsidePage ==
  [][/\ \A i \in (Len(rowLog) + 1)..Len(rowLog') :
          /\ rowLog'[i].rowBase >= pageIndex * lenPage + 40
          /\ rowLog'[i].rowBase < pageIndex * lenPage + lenPage
          /\ pageIndex * lenPage + lenPage <= fileSize
          /\ (getUint8(pageIndex * lenPage + 27) \div 64) % 2 = 0
          /\ getUint32(pageIndex * lenPage + 8) = tables[tableIdx].type
     /\ (pc = "walk" /\ walking /\ visitedPages' # visitedPages) =>
          /\ \A g \in 0..124 :
               ~InHeap(pageIndex * lenPage + lenPage - 36 * g - 4, pageIndex * lenPage)
                 => GroupSkipped(pageIndex * lenPage, g)
          /\ \A k \in 0..1999 :
               ~InHeap(pageIndex * lenPage + lenPage - 36 * (k \div 16) - 6 - 2 * (k % 16),
                       pageIndex * lenPage)
                 => ~SlotRead(pageIndex * lenPage, k)
          /\ \A r \in requests' \ requests : r.off < pageIndex * lenPage
                                            \/ r.off >= pageIndex * lenPage + lenPage - 2
                                            \/ r.len # 2
    ]_vars

\* A page whose rows went to the row decoder and whose row index has a bitmap
\* with a row present whose row offset would lie in the page header
RowOffsetInHeaderSkipped ==
  /\ rowLog # <<>>
  /\ pc = "walk" /\ ~walking /\ visitedPages = {1}
  /\ getUint32(lenPage + 24) % 8192 > 208
  /\ getUint16(lenPage + 40) % 2 = 1

\* The last n elements of a sequence
LastOf(seq, n) == SubSeq(seq, Len(seq) - n + 1, Len(seq))

\* C23: the page last_page is processed, its live rows being handed to the row
\* decoder, and the walk stops there whatever its next_page; a walk whose
\* first_page is last_page processes that one page
StopsAtLastPage ==
  (pc # "failed" /\ tableIdx > 0 /\ tables[tableIdx].lastPage \in visitedPages) =>
    /\ ~walking
    /\ pageIndex = tables[tableIdx].lastPage
    /\ ~PageOutsideBuffer(pageIndex * lenPage) =>
         /\ Len(RowsLoggedFor(pass, tableIdx))
              >= Len(RowsOfPage(pageIndex, tables[tableIdx].type))
         /\ LastOf(RowsLoggedFor(pass, tableIdx),
                   Len(RowsOfPage(pageIndex, tables[tableIdx].type)))
              = RowsOfPage(pageIndex, tables[tableIdx].type)
    /\ tables[tableIdx].firstPage = tables[tableIdx].lastPage
         => visitedPages = {tables[tableIdx].lastPage}

\* A decode that returned the tracks of pages 1 and 2 of a chain whose
\* last_page is 2 and that goes on to a page 3 inside the file
LastPageBeforeChainEnd ==
  /\ pc = "done"
  /\ Len(tables) = 1 /\ tables[1].firstPage = 1 /\ tables[1].lastPage = 2
  /\ NextPageAt(2) = 3 /\ ~PageOutsideBuffer(3 * lenPage)
  /\ visitedPages = {1, 2}
  /\ Len(library.tracks) = 2
  /\ Len(RowsLoggedFor(4, 1)) = 2

\* C24: a track row of at least 0x86 bytes before the end of the buffer has its
\* fixed fields and its twenty-one string-offset slots inside the buffer, and
\* is kept when it passes the sanity gates
MinimumLengthSuffices ==
  \A i \in 1..Len(rowLog) :
    (rowLog[i].pass = 4 /\ rowLog[i].rowBase + 134 <= fileSize) =>
      /\ FirstBad(TrackFieldReqs(rowLog[i].rowBase)) = {}
      /\ FirstBad(TrackSlotReqs(rowLog[i].rowBase)) = {}
      /\ ~FailsSanityGates(getUint32(rowLog[i].rowBase + 72), getUint32(rowLog[i].rowBase + 56),
                           getUint16(rowLog[i].rowBase + 84), getUint8(rowLog[i].rowBase + 89),
                           getUint32(rowLog[i].rowBase + 48))
           => rowLog[i].outcome = "kept"

\* name_ofs of the artist or album row at rowBase: the u16 at farOfs when
\* subtype & 0x04, the u8 at nearOfs otherwise
NameOfsAt(rowBase, farOfs, nearOfs) ==
  IF (getUint16(rowBase) \div 4) % 2 = 1
    THEN getUint16(rowBase + farOfs) ELSE getUint8(rowBase + nearOfs)

\* The row has id > 0 at idOfs and a non-empty device string at row_base + name_ofs
NamedByRule(rowBase, idOfs, farOfs, nearOfs) ==
  /\ getUint32(rowBase + idOfs) > 0
  /\ ReadString(rowBase + NameOfsAt(rowBase, farOfs, nearOfs)).text # <<>>

\* C25: an artist row, and an album row, whose fixed fields lie inside the
\* buffer is added to its lookup exactly when its id is positive and the device
\* string at row_base + name_ofs is not empty
NamedRowsKeptByRule ==
  \A i \in 1..Len(rowLog) :
    /\ (/\ rowLog[i].pass = 1
        /\ tables[rowLog[i].table].type = PAGE_TYPE_ARTISTS
        /\ rowLog[i].rowBase + 12 <= fileSize)
         => (rowLog[i].outcome = "kept" <=> NamedByRule(rowLog[i].rowBase, 4, 10, 9))
    /\ (/\ rowLog[i].pass = 1
        /\ tables[rowLog[i].table].type = PAGE_TYPE_ALBUMS
        /\ rowLog[i].rowBase + 24 <= fileSize)
         => (rowLog[i].outcome = "kept" <=> NamedByRule(rowLog[i].rowBase, 12, 22, 17))

\* The device string at offset by its rule: empty for an even tag other than
\* 0x40 and 0x90, for a length below 4 (long forms) or below 1 (short form),
\* for a length field or a payload that does not fit in the buffer; otherwise
\* the length - 4 bytes from offset + 4, or the length - 1 bytes from offset + 1
DeviceStringByRule(offset) ==
  IF offset < 0 \/ offset >= fileSize THEN <<>>
  ELSE IF Byte(offset) \in {64, 144}
    THEN IF offset + 3 > fileSize THEN <<>>
         ELSE LET length == Byte(offset + 1) + 256 * Byte(offset + 2)
              IN IF length < 4 \/ offset + length > fileSize THEN <<>>
                 ELSE IF Byte(offset) = 64
                   THEN DecodeAscii(BytesAt(offset + 4, length - 4))
                   ELSE DecodeUtf16le(BytesAt(offset + 4, length - 4))
  ELSE IF Byte(offset) % 2 = 1
    THEN LET length == Byte(offset) \div 2
         IN IF length < 1 \/ offset + length > fileSize THEN <<>>
            ELSE DecodeAscii(BytesAt(offset + 1, length - 1))
  ELSE <<>>

\* The offsets of the strings of the track row at rowBase
StringOffsets(rowBase) ==
  {rowBase + OfsString(rowBase, i) : i \in {i \in {10, 17, 20} : OfsString(rowBase, i) > 0}}

\* C26: readDeviceSqlString returns the string its rule gives, the empty string
\* included, for the strings of every track row decoded and at every offset
\* around the end of the buffer
DeviceStringAsRuled ==
  /\ \A i \in 1..Len(rowLog) :
       (rowLog[i].pass = 4 /\ rowLog[i].rowBase + 136 <= fileSize) =>
         \A offset \in StringOffsets(rowLog[i].rowBase) :
           readDeviceSqlString(offset) = DeviceStringByRule(offset)
  /\ pc = "done" =>
       \A offset \in (fileSize - 10)..(fileSize + 1) :
         readDeviceSqlString(offset) = DeviceStringByRule(offset)

\* A track decoded with a title string that is a short string of length 1 or
\* a long string of length 4, which is the empty string
EmptyStringOfMinimumLength ==
  /\ pc = "done"
  /\ Len(library.tracks) = 1 /\ Len(rowLog) = 1
  /\ library.tracks[1].title = UnknownTitle
  /\ \E offset \in StringOffsets(rowLog[1].rowBase) :
       \/ getUint8(offset) = 3 /\ offset + 1 <= fileSize
       \/ getUint8(offset) = 64 /\ getUint16(offset + 1) = 4 /\ offset + 4 < fileSize

(***************************************************************************)
(* Claims about the hook                                                   *)
(***************************************************************************)
\* C21: when selectFolder has ended with status partial or invalid, the screen
\* offers performFullScan for the selected root; and a full scan of a root
\* that has an export.pdb somewhere below it that parses ends with status
\* valid, the root still selected
FullScanAfterMiss ==
  /\ (hist.lastLoad.kind = "selectFolder" /\ status.type \in {"partial", "invalid"}) =>
       (rootHandle = RootDir /\ "performFullScan" \in Offers(status, disk))
  /\ (hist.lastLoad.kind = "performFullScan" /\ disk.exportAt # "none" /\ disk.parses) =>
       (status.type = "valid" /\ rootHandle = RootDir)

LoadingEnds ==
  /\ [](hist.lastLoad.kind = "selectFolder" /\ disk.picker = "abort" => status.type = "idle")
  /\ (status.type = "loading") ~>
       (status.type \in {"idle", "valid", "partial", "invalid", "error"})

\* The folder picker was cancelled and the load has ended
PickerCancelled ==
  /\ hist.lastLoad.kind = "selectFolder"
  /\ disk.picker = "abort"
  /\ tasks = <<>>

RECURSIVE ChainOf(_)
\* The names of the directories from the root down to d
ChainOf(d) == IF d = NoHandle THEN <<>> ELSE Append(ChainOf(DirParent[d]), DirName[d])

\* C29: while the library view is shown for a selected folder, directoryPath
\* is the chain of names from rootHandle down to currentDirectory, it never
\* loses the root name, and fileEntries, once loaded, is the listing of
\* currentDirectory
BrowserShowsCurrentDirectory ==
  (status.type = "valid" /\ rootHandle # NoHandle) =>
    /\ currentDirectory # NoHandle
    /\ directoryPath = ChainOf(currentDirectory)
    /\ directoryPath[1] = DirName[rootHandle]
    /\ fileEntries # <<>> => fileEntries = listDirectory(currentDirectory)

\* C30: from reset until the next call of selectFolder, handleFileInput or
\* performFullScan the hook is in its initial state
ResetStateHeld ==
  hist.afterReset =>
    /\ status = [type |-> "idle"]
    /\ rootHandle = NoHandle
    /\ directoryPath = <<>>

====
